---- MODULE Spec2Model ----
(***************************************************************************)
(* Model of the schema-normalization layer of the cyber-attack dashboard:  *)
(* modules/data_adapter.py (map_global_schema, load_best_dataset).         *)
(*                                                                         *)
(* A table (pandas DataFrame) is a record                                  *)
(*     [idx |-> <<row labels>>, col |-> [column name -> <<cells>>]]        *)
(* and a cell is a record [k, s, n, d]:                                    *)
(*     k = "null"  NaN / None / NaT                                        *)
(*     k = "num"   the number n / d                                        *)
(*     k = "str"   the string s                                            *)
(*     k = "ts"    the instant  day n, d ticks into the day                *)
(* The process-wide numpy generator is the variable rng; a call of         *)
(* pd.Timestamp.now() reads the variable clock.                            *)
(***************************************************************************)
EXTENDS Integers, Sequences, FiniteSets, TLC

VARIABLES
    df,       \* the input table (what read_csv returned / the caller passed)
    rng,      \* state of numpy's global random generator
    clock,    \* the wall clock, in ticks of the current day
    pc,       \* "idle", "mapped", "renormalized", "rerun", "loaded", "stopped"
    variant,  \* schema variant load_best_dataset chose ("" before it ran)
    out,      \* the table the last call returned (EmptyFrame if none)
    err,      \* "none", or the exception / halt that ended the call
    out2,     \* what the second call returned (Renormalize, Rerun)
    err2,     \* its exception, or "none"
    rng0,     \* the generator state the last call started from
    files,    \* the names in the root directory load_best_dataset searched
    ds,       \* the path find_dataset returned ("" before it ran)
    records,  \* generate_expanded_data: the records generated so far
    rnd,      \* generate_expanded_data: state of Python's `random` generator
    pyseed,   \* the state random.seed left the generator in
    num_records, \* the argument of generate_dataset
    dataset,  \* the rows of the table generate_dataset returned
    genpc,    \* "generating", "returned", or the exception raised
    filters,  \* data_loader_global: the filters passed to filter_data
    filtered, \* the table filter_data returned
    ferr      \* the exception filter_data raised, or "none"

adapterVars == <<df, rng, clock, pc, variant, out, err, out2, err2, rng0, files, ds>>

genVars == <<records, rnd, pyseed, num_records, dataset, genpc>>

globalVars == <<filters, filtered, ferr>>

vars == <<df, rng, clock, pc, variant, out, err, out2, err2, rng0, files, ds,
          records, rnd, pyseed, num_records, dataset, genpc, filters, filtered, ferr>>

(***************************************************************************)
(* Bounds of the model.                                                    *)
(***************************************************************************)
MaxRows == 1
MaxSeed == 1
MaxClock == 1
MaxRecords == 2
MaxPySeed == 1008

(***************************************************************************)
(* Cells.                                                                  *)
(***************************************************************************)
Null == [k |-> "null", s |-> "", n |-> 0, d |-> 1]
Num(x) == [k |-> "num", s |-> "", n |-> x, d |-> 1]
Frac(x, y) == [k |-> "num", s |-> "", n |-> x, d |-> y]
Str(x) == [k |-> "str", s |-> x, n |-> 0, d |-> 1]
Ts(day, tick) == [k |-> "ts", s |-> "", n |-> day, d |-> tick]

IsNull(c) == c.k = "null"
IsNum(c) == c.k = "num"
IsStr(c) == c.k = "str"
IsTs(c) == c.k = "ts"

\* x > y and x >= y on numeric cells against an integer literal
NumGt(c, y) == c.n > y * c.d
NumGe(c, y) == c.n >= y * c.d

(***************************************************************************)
(* Strings: Python's str operations used by the adapter.                   *)
(***************************************************************************)
Digits == <<"0", "1", "2", "3", "4", "5", "6", "7", "8", "9">>

IsDigit(ch) == \E i \in 1..10 : Digits[i] = ch

DigitVal(ch) == (CHOOSE i \in 1..10 : Digits[i] = ch) - 1

RECURSIVE NatToStr(_)
NatToStr(x) == IF x < 10 THEN Digits[x + 1]
               ELSE NatToStr(x \div 10) \o Digits[(x % 10) + 1]

IntToStr(x) == IF x < 0 THEN "-" \o NatToStr(-x) ELSE NatToStr(x)

RECURSIVE AllDigits(_)
AllDigits(s) == IF s = "" THEN TRUE
                ELSE IsDigit(SubSeq(s, 1, 1)) /\ AllDigits(SubSeq(s, 2, Len(s)))

RECURSIVE StrToNat(_)
StrToNat(s) == IF Len(s) = 1 THEN DigitVal(s)
               ELSE StrToNat(SubSeq(s, 1, Len(s) - 1)) * 10
                    + DigitVal(SubSeq(s, Len(s), Len(s)))

\* str.lower() on the letters the labels use
LowerChar(ch) ==
    CASE ch = "A" -> "a" [] ch = "B" -> "b" [] ch = "C" -> "c" [] ch = "D" -> "d"
      [] ch = "E" -> "e" [] ch = "F" -> "f" [] ch = "G" -> "g" [] ch = "H" -> "h"
      [] ch = "I" -> "i" [] ch = "J" -> "j" [] ch = "K" -> "k" [] ch = "L" -> "l"
      [] ch = "M" -> "m" [] ch = "N" -> "n" [] ch = "O" -> "o" [] ch = "P" -> "p"
      [] ch = "Q" -> "q" [] ch = "R" -> "r" [] ch = "S" -> "s" [] ch = "T" -> "t"
      [] ch = "U" -> "u" [] ch = "V" -> "v" [] ch = "W" -> "w" [] ch = "X" -> "x"
      [] ch = "Y" -> "y" [] ch = "Z" -> "z" [] OTHER -> ch

RECURSIVE Lower(_)
Lower(s) == IF s = "" THEN ""
            ELSE LowerChar(SubSeq(s, 1, 1)) \o Lower(SubSeq(s, 2, Len(s)))

\* Python's  sub in s
Contains(sub, s) ==
    \E i \in 1..(Len(s) - Len(sub) + 1) : SubSeq(s, i, i + Len(sub) - 1) = sub

(***************************************************************************)
(* Instants.  A calendar date is the day number DateOrd(y, m, d); an       *)
(* instant is Ts(day, tick).  pd.Timestamp.now() is Ts(Today, clock).      *)
(***************************************************************************)
DateOrd(y, m, d) == (y * 12 + (m - 1)) * 31 + (d - 1)

EpochDay == DateOrd(1970, 1, 1)

Today == DateOrd(2025, 6, 15)

Now(t) == Ts(Today, t)

\* the date strings the parser is modelled on: ISO dates "YYYY-MM-DD"
IsIsoDate(s) ==
    /\ Len(s) = 10
    /\ SubSeq(s, 5, 5) = "-" /\ SubSeq(s, 8, 8) = "-"
    /\ AllDigits(SubSeq(s, 1, 4)) /\ AllDigits(SubSeq(s, 6, 7))
    /\ AllDigits(SubSeq(s, 9, 10))
    /\ StrToNat(SubSeq(s, 6, 7)) \in 1..12
    /\ StrToNat(SubSeq(s, 9, 10)) \in 1..28

ParseDate(s) == Ts(DateOrd(StrToNat(SubSeq(s, 1, 4)), StrToNat(SubSeq(s, 6, 7)),
                           StrToNat(SubSeq(s, 9, 10))), 0)

\* one element of pd.to_datetime(..., errors='coerce'): NaT when unparsable
ToDatetimeCell(c) ==
    CASE IsTs(c) -> c
      [] IsNum(c) -> Ts(EpochDay, c.n \div c.d)      \* nanoseconds since the epoch
      [] IsStr(c) -> IF IsIsoDate(c.s) THEN ParseDate(c.s) ELSE Null
      [] OTHER -> Null

\* pd.to_datetime without errors='coerce' raises on the first unparsable string
DatetimeRaises(cells) ==
    \E i \in 1..Len(cells) : IsStr(cells[i]) /\ ~IsIsoDate(cells[i].s)

(***************************************************************************)
(* pd.to_numeric(..., errors='coerce'), one element: NaN when unparsable.  *)
(***************************************************************************)
IsNumeral(s) ==
    \/ (s # "" /\ AllDigits(s))
    \/ (Len(s) > 1 /\ SubSeq(s, 1, 1) = "-" /\ AllDigits(SubSeq(s, 2, Len(s))))

ParseNum(s) == IF SubSeq(s, 1, 1) = "-"
               THEN Num(0 - StrToNat(SubSeq(s, 2, Len(s))))
               ELSE Num(StrToNat(s))

ToNumericCell(c) ==
    CASE IsNum(c) -> c
      [] IsStr(c) -> IF IsNumeral(c.s) THEN ParseNum(c.s) ELSE Null
      [] OTHER -> Null

\* Series.fillna(v)
FillNa(cells, v) == [i \in 1..Len(cells) |-> IF IsNull(cells[i]) THEN v ELSE cells[i]]

ToNumeric(cells) == [i \in 1..Len(cells) |-> ToNumericCell(cells[i])]

ToDatetime(cells) == [i \in 1..Len(cells) |-> ToDatetimeCell(cells[i])]

(***************************************************************************)
(* Series.astype(str).  A numeric column that holds a NaN is a float       *)
(* column, whose whole numbers print with a trailing ".0".                 *)
(***************************************************************************)
IsFloatColumn(cells) ==
    /\ \A i \in 1..Len(cells) : IsNum(cells[i]) \/ IsNull(cells[i])
    /\ \E i \in 1..Len(cells) : IsNull(cells[i])

Pad2(x) == IF x < 10 THEN "0" \o NatToStr(x) ELSE NatToStr(x)

DateStr(c) == NatToStr(c.n \div 372) \o "-" \o Pad2(((c.n % 372) \div 31) + 1)
              \o "-" \o Pad2((c.n % 31) + 1)

CellStr(c, isFloat) ==
    CASE IsStr(c) -> c.s
      [] IsNum(c) -> IF isFloat THEN IntToStr(c.n \div c.d) \o ".0"
                     ELSE IntToStr(c.n \div c.d)
      [] IsTs(c) -> DateStr(c)
      [] OTHER -> "nan"

AsTypeStr(cells) ==
    [i \in 1..Len(cells) |-> Str(CellStr(cells[i], IsFloatColumn(cells)))]

(***************************************************************************)
(* numpy's global generator.  The state is a small linear congruential     *)
(* generator; RawAt(r, k) is the k-th raw draw from state r (k = 0 first). *)
(***************************************************************************)
RngNext(r) == (5 * r + 3) % 64

RECURSIVE RngAdvance(_, _)
RngAdvance(r, k) == IF k = 0 THEN r ELSE RngAdvance(RngNext(r), k - 1)

RawAt(r, k) == RngAdvance(r, k)

\* np.random.randint(lo, hi): an integer of [lo, hi)
RandInt(lo, hi, raw) == lo + (raw % (hi - lo))

\* np.random.choice(vocab, size=n)
Choice(vocab, r, n) ==
    [i \in 1..n |-> Str(vocab[(RawAt(r, i - 1) % Len(vocab)) + 1])]

\* np.random.choice(severity_levels, size=n, p=[0.4, 0.3, 0.2, 0.1])
WeightedSeverity(raw) ==
    LET u == raw % 10
    IN  IF u < 4 THEN "Low" ELSE IF u < 7 THEN "Medium"
        ELSE IF u < 9 THEN "High" ELSE "Critical"

(***************************************************************************)
(* Tables.                                                                 *)
(***************************************************************************)
EmptyFrame == [idx |-> <<>>, col |-> [c \in {} |-> <<>>]]

Columns(t) == DOMAIN t.col

HasCol(t, c) == c \in DOMAIN t.col

NRows(t) == Len(t.idx)

\* pd.RangeIndex(n), the index read_csv and pd.Series(values) give
RangeIndex(n) == [i \in 1..n |-> i - 1]

\* mapped[c] = <values in row order>  (a list, an ndarray, or a Series that
\* carries mapped's own index)
SetCol(t, c, cells) ==
    [t EXCEPT !.col = [x \in (DOMAIN t.col) \cup {c} |->
                          IF x = c THEN cells ELSE t.col[x]]]

\* mapped[c] = pd.Series(values): the new Series has a RangeIndex and is
\* aligned on mapped's index; labels it lacks become NaN
AlignSeries(t, cells) ==
    [i \in 1..NRows(t) |->
        IF t.idx[i] \in 0..(Len(cells) - 1) THEN cells[t.idx[i] + 1] ELSE Null]

\* a scalar broadcast over the rows
Broadcast(t, cell) == [i \in 1..NRows(t) |-> cell]

\* mapped.get(c, default)
GetOr(t, c, default) == IF HasCol(t, c) THEN t.col[c] ELSE default

(***************************************************************************)
(* map_global_schema, first half: the `mapped` frame (lines 48-173).       *)
(* A frame is [m |-> mapped, r |-> generator state, e |-> exception].      *)
(***************************************************************************)
\* the one value of a singleton
Only(S) == CHOOSE y \in S : TRUE

Raise(F, exc) == [F EXCEPT !.e = exc]

\* mapped[c] = pd.Series(np.random.choice(vocab, size=len(mapped)))
SynthChoice(F, c, vocab) ==
    [F EXCEPT !.m = SetCol(F.m, c, AlignSeries(F.m, Choice(vocab, F.r, NRows(F.m)))),
              !.r = RngAdvance(F.r, NRows(F.m))]

\* mapped['Year'].astype(str) + '-01-01'
YearStrings(t) ==
    LET ys == AsTypeStr(t.col["Year"])
    IN  [i \in 1..NRows(t) |-> Str(ys[i].s \o "-01-01")]

\* lines 50-56
MapTimestamp(F, now) ==
    IF HasCol(F.m, "Timestamp") THEN F
    ELSE IF HasCol(F.m, "Year")
         THEN IF DatetimeRaises(YearStrings(F.m)) THEN Raise(F, "ValueError")
              ELSE [F EXCEPT !.m = SetCol(F.m, "Timestamp", ToDatetime(YearStrings(F.m)))]
         ELSE [F EXCEPT !.m = SetCol(F.m, "Timestamp", Broadcast(F.m, now))]

device_types == <<"Network Sensor", "Firewall", "IDS", "Server", "Workstation", "IoT Device">>

\* lines 58-62
MapDeviceInformation(F) ==
    IF HasCol(F.m, "Device Information") THEN F
    ELSE SynthChoice(F, "Device Information", device_types)

attack_types == <<"DDoS", "SQL Injection", "XSS", "Malware", "Phishing", "Zero-day Exploit">>

\* lines 64-71
MapAttackType(F) ==
    IF HasCol(F.m, "Attack Type") THEN F
    ELSE IF HasCol(F.m, "attack_type")
         THEN [F EXCEPT !.m = SetCol(F.m, "Attack Type", F.m.col["attack_type"])]
         ELSE SynthChoice(F, "Attack Type", attack_types)

\* lines 73-76: np.random.beta(2, 5, size=n), a float of (0, 1) per row
MapAnomalyScores(F) ==
    IF HasCol(F.m, "Anomaly Scores") THEN F
    ELSE [F EXCEPT
            !.m = SetCol(F.m, "Anomaly Scores",
                     [i \in 1..NRows(F.m) |-> Frac(1 + (RawAt(F.r, i - 1) % 99), 100)]),
            !.r = RngAdvance(F.r, NRows(F.m))]

\* np.random.randint(lo, hi, size=n) assigned as an array
SynthRandInt(F, c, lo, hi) ==
    [F EXCEPT
        !.m = SetCol(F.m, c, [i \in 1..NRows(F.m) |-> Num(RandInt(lo, hi, RawAt(F.r, i - 1)))]),
        !.r = RngAdvance(F.r, NRows(F.m))]

\* common_ports = [80, 443, 22, 21, 25, 53] + list(range(1024, 65535))
CommonPort(k) == IF k < 6 THEN <<80, 443, 22, 21, 25, 53>>[k + 1] ELSE 1024 + (k - 6)

\* lines 78-85
MapNetworkMetrics(F) ==
    LET f1 == IF HasCol(F.m, "Packet Length") THEN F
              ELSE SynthRandInt(F, "Packet Length", 64, 1500)
        f2 == IF HasCol(f1.m, "Source Port") THEN f1
              ELSE SynthRandInt(f1, "Source Port", 1024, 65535)
    IN  IF HasCol(f2.m, "Destination Port") THEN f2
        ELSE [f2 EXCEPT
                !.m = SetCol(f2.m, "Destination Port",
                         AlignSeries(f2.m, [i \in 1..NRows(f2.m) |->
                             Num(CommonPort(RawAt(f2.r, i - 1) % (6 + (65535 - 1024))))])),
                !.r = RngAdvance(f2.r, NRows(f2.m))]

\* lines 90-93: generate_ip(), from generator state r: the address and the
\* state after the draws it made
generate_ip(r) ==
    IF (RawAt(r, 0) % 10) < 3
    THEN [ip |-> "192.168." \o NatToStr(RandInt(0, 255, RawAt(r, 1))) \o "."
                 \o NatToStr(RandInt(1, 255, RawAt(r, 2))),
          r |-> RngAdvance(r, 3)]
    ELSE [ip |-> NatToStr(RandInt(1, 223, RawAt(r, 1))) \o "."
                 \o NatToStr(RandInt(0, 255, RawAt(r, 2))) \o "."
                 \o NatToStr(RandInt(0, 255, RawAt(r, 3))) \o "."
                 \o NatToStr(RandInt(1, 255, RawAt(r, 4))),
          r |-> RngAdvance(r, 5)]

\* [generate_ip() for _ in range(n)]
RECURSIVE GenerateIps(_, _)
GenerateIps(r, n) ==
    IF n = 0 THEN [ips |-> <<>>, r |-> r]
    ELSE LET g == generate_ip(r)
             rest == GenerateIps(g.r, n - 1)
         IN  [ips |-> <<Str(g.ip)>> \o rest.ips, r |-> rest.r]

\* lines 87-97.  generate_ip is defined only inside the first `if`: with
\* 'Source IP Address' present the second list comprehension calls an
\* unbound local as soon as it has a row to fill.
MapIpAddresses(F) ==
    LET n == NRows(F.m)
        srcMissing == ~HasCol(F.m, "Source IP Address")
        g1 == GenerateIps(F.r, n)
        f1 == IF srcMissing
              THEN [F EXCEPT !.m = SetCol(F.m, "Source IP Address", g1.ips), !.r = g1.r]
              ELSE F
        g2 == GenerateIps(f1.r, n)
    IN  IF HasCol(f1.m, "Destination IP Address") THEN f1
        ELSE IF ~srcMissing /\ n > 0 THEN Raise(f1, "UnboundLocalError")
        ELSE [f1 EXCEPT !.m = SetCol(f1.m, "Destination IP Address", g2.ips), !.r = g2.r]

protocols == <<"TCP", "UDP", "ICMP", "HTTP", "HTTPS", "DNS", "SMTP">>

\* lines 99-102
MapProtocol(F) ==
    IF HasCol(F.m, "Protocol") THEN F ELSE SynthChoice(F, "Protocol", protocols)

actions == <<"Blocked", "Allowed", "Quarantined", "Logged", "Alerted", "Escalated">>

\* lines 104-110
MapActionTaken(F) ==
    IF HasCol(F.m, "Action Taken") THEN F
    ELSE IF HasCol(F.m, "outcome")
         THEN [F EXCEPT !.m = SetCol(F.m, "Action Taken", F.m.col["outcome"])]
         ELSE SynthChoice(F, "Action Taken", actions)

alert_types == <<"Signature Match", "Anomaly Detected", "Policy Violation", "No Alert", "False Positive">>

indicators == <<"None Detected", "Suspicious Binary", "Known Malware", "Potential Backdoor", "Ransomware Pattern">>

log_types == <<"Connection Blocked", "Traffic Allowed", "Rate Limited", "NAT Translation", "VPN Access">>

proxy_info == <<"Direct Connection", "Via Corporate Proxy", "VPN Endpoint", "TOR Exit Node", "Unknown Proxy">>

\* lines 112-127
MapSecurityOutputs(F) ==
    LET f1 == IF HasCol(F.m, "IDS/IPS Alerts") THEN F
              ELSE SynthChoice(F, "IDS/IPS Alerts", alert_types)
        f2 == IF HasCol(f1.m, "Malware Indicators") THEN f1
              ELSE SynthChoice(f1, "Malware Indicators", indicators)
        f3 == IF HasCol(f2.m, "Firewall Logs") THEN f2
              ELSE SynthChoice(f2, "Firewall Logs", log_types)
    IN  IF HasCol(f3.m, "Proxy Information") THEN f3
        ELSE SynthChoice(f3, "Proxy Information", proxy_info)

\* lines 130-133: f"{x}_{np.random.randint(1000, 9999)}" per row
MapAttackSignature(F) ==
    IF HasCol(F.m, "Attack Signature") THEN F
    ELSE LET at == F.m.col["Attack Type"]
         IN  [F EXCEPT
                !.m = SetCol(F.m, "Attack Signature",
                         [i \in 1..NRows(F.m) |->
                             Str(CellStr(at[i], IsFloatColumn(at)) \o "_"
                                 \o NatToStr(RandInt(1000, 9999, RawAt(F.r, i - 1))))]),
                !.r = RngAdvance(F.r, NRows(F.m))]

\* line 138: the label of a numeric severity (every comparison with NaN is False)
SeverityLabel(x) ==
    IF IsNull(x) THEN "Low"
    ELSE IF NumGe(x, 8) THEN "Critical"
    ELSE IF NumGe(x, 6) THEN "High"
    ELSE IF NumGe(x, 4) THEN "Medium" ELSE "Low"

\* line 142: the label of a financial loss in million $
LossLabel(x) ==
    IF IsNull(x) THEN "Low"
    ELSE IF NumGt(x, 100) THEN "Critical"
    ELSE IF NumGt(x, 50) THEN "High"
    ELSE IF NumGt(x, 10) THEN "Medium" ELSE "Low"

\* x >= 8 / x > 100 on a str or a Timestamp raises TypeError
ComparesWithInt(cells) == \A i \in 1..Len(cells) : IsNum(cells[i]) \/ IsNull(cells[i])

\* lines 135-147
MapSeverityLevel(F) ==
    IF HasCol(F.m, "Severity Level") THEN F
    ELSE IF HasCol(F.m, "attack_severity")
         THEN LET xs == F.m.col["attack_severity"]
              IN  IF ~ComparesWithInt(xs) THEN Raise(F, "TypeError")
                  ELSE [F EXCEPT !.m = SetCol(F.m, "Severity Level",
                            [i \in 1..NRows(F.m) |-> Str(SeverityLabel(xs[i]))])]
    ELSE IF HasCol(F.m, "Financial Loss (in Million $)")
         THEN LET xs == F.m.col["Financial Loss (in Million $)"]
              IN  IF ~ComparesWithInt(xs) THEN Raise(F, "TypeError")
                  ELSE [F EXCEPT !.m = SetCol(F.m, "Severity Level",
                            [i \in 1..NRows(F.m) |-> Str(LossLabel(xs[i]))])]
    ELSE [F EXCEPT
            !.m = SetCol(F.m, "Severity Level",
                     AlignSeries(F.m, [i \in 1..NRows(F.m) |->
                         Str(WeightedSeverity(RawAt(F.r, i - 1)))])),
            !.r = RngAdvance(F.r, NRows(F.m))]

\* lines 153-160: country_coords, in ten-thousandths of a degree
CountryLat(c) ==
    CASE c = Str("USA") -> Frac(370902, 10000) [] c = Str("China") -> Frac(358617, 10000)
      [] c = Str("Russia") -> Frac(615240, 10000) [] c = Str("UK") -> Frac(553781, 10000)
      [] c = Str("India") -> Frac(205937, 10000) [] OTHER -> Num(0)

CountryLon(c) ==
    CASE c = Str("USA") -> Frac(-957129, 10000) [] c = Str("China") -> Frac(1041954, 10000)
      [] c = Str("Russia") -> Frac(1053188, 10000) [] c = Str("UK") -> Frac(-34360, 10000)
      [] c = Str("India") -> Frac(789629, 10000) [] OTHER -> Num(0)

\* lines 151-164
MapGeo(F) ==
    IF HasCol(F.m, "Country") /\ ~HasCol(F.m, "Latitude")
    THEN LET cs == F.m.col["Country"]
             m1 == SetCol(F.m, "Latitude", [i \in 1..NRows(F.m) |-> CountryLat(cs[i])])
         IN  [F EXCEPT !.m = SetCol(m1, "Longitude",
                                 [i \in 1..NRows(F.m) |-> CountryLon(cs[i])])]
    ELSE F

\* line 167
EnsureTimestamp(F, now) ==
    [F EXCEPT !.m = SetCol(F.m, "Timestamp", FillNa(ToDatetime(F.m.col["Timestamp"]), now))]

CANONICAL_COLUMNS ==
    <<"Timestamp", "Device Information", "Attack Type", "Anomaly Scores",
      "Packet Length", "Source Port", "Destination Port", "Source IP Address",
      "Destination IP Address", "Protocol", "Action Taken", "IDS/IPS Alerts",
      "Malware Indicators", "Firewall Logs", "Proxy Information", "Attack Signature",
      "Severity Level">>

\* lines 171-173
RECURSIVE EnsureCanonicalFrom(_, _)
EnsureCanonicalFrom(t, k) ==
    IF k > Len(CANONICAL_COLUMNS) THEN t
    ELSE EnsureCanonicalFrom(
             IF HasCol(t, CANONICAL_COLUMNS[k]) THEN t
             ELSE SetCol(t, CANONICAL_COLUMNS[k], Broadcast(t, Null)), k + 1)

EnsureCanonical(F) == [F EXCEPT !.m = EnsureCanonicalFrom(F.m, 1)]

\* lines 48-173: the `mapped` frame.  Every pd.Timestamp.now() of one call is
\* read as the one instant `now`: the call fills a table either at line 56
\* or at line 167, never at both.
Statements ==
    <<"Timestamp", "Device Information", "Attack Type", "Anomaly Scores", "Network metrics",
      "IP addresses", "Protocol", "Action Taken", "Security outputs", "Attack Signature",
      "Severity Level", "Geo", "Ensure Timestamp", "Ensure canonical">>

Statement(name, F, now) ==
    CASE name = "Timestamp" -> MapTimestamp(F, now)
      [] name = "Device Information" -> MapDeviceInformation(F)
      [] name = "Attack Type" -> MapAttackType(F)
      [] name = "Anomaly Scores" -> MapAnomalyScores(F)
      [] name = "Network metrics" -> MapNetworkMetrics(F)
      [] name = "IP addresses" -> MapIpAddresses(F)
      [] name = "Protocol" -> MapProtocol(F)
      [] name = "Action Taken" -> MapActionTaken(F)
      [] name = "Security outputs" -> MapSecurityOutputs(F)
      [] name = "Attack Signature" -> MapAttackSignature(F)
      [] name = "Severity Level" -> MapSeverityLevel(F)
      [] name = "Geo" -> MapGeo(F)
      [] name = "Ensure Timestamp" -> EnsureTimestamp(F, now)
      [] name = "Ensure canonical" -> EnsureCanonical(F)

\* the statements from the k-th on; a raised exception skips the rest
RECURSIVE RunFrom(_, _, _)
RunFrom(k, F, now) ==
    IF k > Len(Statements) \/ F.e # "none" THEN F
    ELSE Only({RunFrom(k + 1, x, now) : x \in {Statement(Statements[k], F, now)}})

BuildMapped(t, r, now) == RunFrom(1, [m |-> t, r |-> r, e |-> "none"], now)

(***************************************************************************)
(* map_global_schema, second half: the `standardized` frame (lines 185-297)*)
(***************************************************************************)
\* lines 187-195; line 193 has no errors='coerce'
StdTimestampRaises(m) ==
    /\ ~HasCol(m, "Timestamp") /\ ~HasCol(m, "timestamp") /\ HasCol(m, "Year")
    /\ DatetimeRaises(YearStrings(m))

StdTimestamp(m, now) ==
    IF HasCol(m, "Timestamp") THEN FillNa(ToDatetime(m.col["Timestamp"]), now)
    ELSE IF HasCol(m, "timestamp") THEN FillNa(ToDatetime(m.col["timestamp"]), now)
    ELSE IF HasCol(m, "Year") THEN ToDatetime(YearStrings(m))
    ELSE Broadcast(m, now)

\* lines 197-203
StdAttackType(m) ==
    IF HasCol(m, "Attack Type") THEN m.col["Attack Type"]
    ELSE IF HasCol(m, "attack_type") THEN m.col["attack_type"]
    ELSE GetOr(m, "Attack Signature", Broadcast(m, Str("Unknown")))

\* lines 206-208
StdTargetSystem(m) ==
    GetOr(m, "Device Information",
        GetOr(m, "Target",
            GetOr(m, "Target Industry", Broadcast(m, Str("Unknown System")))))

\* lines 211-216
StdLocation(m) ==
    IF HasCol(m, "location") THEN m.col["location"]
    ELSE IF HasCol(m, "Country") THEN m.col["Country"]
    ELSE Broadcast(m, Str("Unknown"))

\* line 219
StdIndustry(m) ==
    GetOr(m, "Industry",
        GetOr(m, "industry",
            GetOr(m, "Target Industry", Broadcast(m, Str("Various")))))

\* sev_to_num with the 'low' test moved to the front
sev_to_num_low_first(x) ==
    IF Contains("low", x) THEN 2
    ELSE IF Contains("critical", x) THEN 9
    ELSE IF Contains("high", x) THEN 7
    ELSE IF Contains("medium", x) THEN 5
    ELSE 5

\* lines 227-236
sev_to_num(x) ==
    IF Contains("critical", x) THEN 9
    ELSE IF Contains("high", x) THEN 7
    ELSE IF Contains("medium", x) THEN 5
    ELSE IF Contains("low", x) THEN 2
    ELSE 5

\* lines 240-247
loss_to_sev(x) ==
    IF NumGt(x, 100) THEN 9
    ELSE IF NumGt(x, 50) THEN 7
    ELSE IF NumGt(x, 10) THEN 5
    ELSE 3

\* line 251
users_to_sev(x) ==
    IF NumGt(x, 100000) THEN 7 ELSE IF NumGt(x, 10000) THEN 5 ELSE 3

\* line 226: mapped['Severity Level'].astype(str).str.lower()
LowerLabels(m) ==
    LET ls == AsTypeStr(m.col["Severity Level"])
    IN  [i \in 1..NRows(m) |-> Lower(ls[i].s)]

\* lines 222-253
StdAttackSeverity(m) ==
    IF HasCol(m, "attack_severity")
    THEN FillNa(ToNumeric(m.col["attack_severity"]), Num(5))
    ELSE IF HasCol(m, "Severity Level")
    THEN [i \in 1..NRows(m) |-> Num(sev_to_num(LowerLabels(m)[i]))]
    ELSE IF HasCol(m, "Financial Loss (in Million $)")
    THEN LET loss == FillNa(ToNumeric(m.col["Financial Loss (in Million $)"]), Num(0))
         IN  [i \in 1..NRows(m) |-> Num(loss_to_sev(loss[i]))]
    ELSE IF HasCol(m, "Number of Affected Users")
    THEN LET users == FillNa(ToNumeric(m.col["Number of Affected Users"]), Num(0))
         IN  [i \in 1..NRows(m) |-> Num(users_to_sev(users[i]))]
    ELSE Broadcast(m, Num(5))

\* loss * 0.5 and users * 0.001
Scale(x, by) == Frac(x.n, x.d * by)

\* StdDataCompromised with the affected-user rule tried before the loss rule
StdDataCompromisedUsersFirst(m) ==
    IF HasCol(m, "data_compromised_GB")
    THEN FillNa(ToNumeric(m.col["data_compromised_GB"]), Num(0))
    ELSE IF HasCol(m, "Number of Affected Users")
    THEN LET users == FillNa(ToNumeric(m.col["Number of Affected Users"]), Num(0))
         IN  [i \in 1..NRows(m) |-> Scale(users[i], 1000)]
    ELSE IF HasCol(m, "Financial Loss (in Million $)")
    THEN LET loss == FillNa(ToNumeric(m.col["Financial Loss (in Million $)"]), Num(0))
         IN  [i \in 1..NRows(m) |-> Scale(loss[i], 2)]
    ELSE Broadcast(m, Num(0))

\* lines 256-266
StdDataCompromised(m) ==
    IF HasCol(m, "data_compromised_GB")
    THEN FillNa(ToNumeric(m.col["data_compromised_GB"]), Num(0))
    ELSE IF HasCol(m, "Financial Loss (in Million $)")
    THEN LET loss == FillNa(ToNumeric(m.col["Financial Loss (in Million $)"]), Num(0))
         IN  [i \in 1..NRows(m) |-> Scale(loss[i], 2)]
    ELSE IF HasCol(m, "Number of Affected Users")
    THEN LET users == FillNa(ToNumeric(m.col["Number of Affected Users"]), Num(0))
         IN  [i \in 1..NRows(m) |-> Scale(users[i], 1000)]
    ELSE Broadcast(m, Num(0))

\* lines 269-277
StdOutcome(m) ==
    IF HasCol(m, "Action Taken") THEN m.col["Action Taken"]
    ELSE IF HasCol(m, "outcome") THEN m.col["outcome"]
    ELSE IF HasCol(m, "Incident Resolution Time (in Hours)")
    THEN LET hrs == FillNa(ToNumeric(m.col["Incident Resolution Time (in Hours)"]), Num(0))
         IN  [i \in 1..NRows(m) |-> IF NumGt(hrs[i], 0) THEN Str("Resolved") ELSE Str("Unknown")]
    ELSE Broadcast(m, Str("Unknown"))

\* lines 280-281
StdAttackerIp(m) ==
    GetOr(m, "Source IP Address", GetOr(m, "attacker_ip", Broadcast(m, Str("0.0.0.0"))))

StdTargetIp(m) ==
    GetOr(m, "Destination IP Address", GetOr(m, "target_ip", Broadcast(m, Str("0.0.0.0"))))

\* line 284
StdMitigationMethod(m) ==
    GetOr(m, "Defense Mechanism Used",
        GetOr(m, "Defense Mechanism",
            GetOr(m, "mitigation_method",
                GetOr(m, "Attack Signature", Broadcast(m, Str("Standard Protocol"))))))

\* lines 285-286
StdAttackDuration(m) ==
    FillNa(ToNumeric(GetOr(m, "attack_duration_min",
                         GetOr(m, "Duration (min)", Broadcast(m, Num(30))))), Num(30))

StdResponseTime(m) ==
    FillNa(ToNumeric(GetOr(m, "response_time_min",
                         GetOr(m, "Response Time (min)", Broadcast(m, Num(15))))), Num(15))

\* lines 289-290
StdSecurityTools(m) ==
    GetOr(m, "Defense Mechanism Used",
        GetOr(m, "security_tools_used", Broadcast(m, Str("Basic Security Suite"))))

StdUserRole(m) == GetOr(m, "user_role", Broadcast(m, Str("User")))

\* the fields of the standardized frame
StandardFields ==
    {"timestamp", "attack_type", "target_system", "location", "industry",
     "attack_severity", "data_compromised_GB", "outcome", "attacker_ip", "target_ip",
     "mitigation_method", "attack_duration_min", "response_time_min",
     "security_tools_used", "user_role"}

\* lines 185-297
Standardize(m, now) ==
    [idx |-> m.idx,
     col |-> [f \in StandardFields |->
        CASE f = "timestamp" -> StdTimestamp(m, now)
          [] f = "attack_type" -> AsTypeStr(StdAttackType(m))          \* line 293
          [] f = "target_system" -> AsTypeStr(StdTargetSystem(m))      \* line 294
          [] f = "location" -> AsTypeStr(StdLocation(m))               \* line 295
          [] f = "industry" -> StdIndustry(m)
          [] f = "attack_severity" -> StdAttackSeverity(m)
          [] f = "data_compromised_GB" -> StdDataCompromised(m)
          [] f = "outcome" -> StdOutcome(m)
          [] f = "attacker_ip" -> StdAttackerIp(m)
          [] f = "target_ip" -> StdTargetIp(m)
          [] f = "mitigation_method" -> StdMitigationMethod(m)
          [] f = "attack_duration_min" -> StdAttackDuration(m)
          [] f = "response_time_min" -> StdResponseTime(m)
          [] f = "security_tools_used" -> StdSecurityTools(m)
          [] OTHER -> StdUserRole(m)]]

\* lines 43-297: map_global_schema(df) from generator state r at instant now:
\* the returned frame (EmptyFrame when it raised), the generator state it
\* leaves, and the exception ("none" when it returned)
map_global_schema(t, r, now) ==
    Only({IF F.e # "none" THEN [out |-> EmptyFrame, r |-> F.r, e |-> F.e]
          ELSE IF StdTimestampRaises(F.m)
               THEN [out |-> EmptyFrame, r |-> F.r, e |-> "ValueError"]
               ELSE [out |-> Standardize(F.m, now), r |-> F.r, e |-> "none"] :
          F \in {BuildMapped(t, r, now)}})

(***************************************************************************)
(* Data flow of map_global_schema: which columns of `mapped` hold          *)
(* placeholders, and which column each derived field is computed from.     *)
(***************************************************************************)
\* the columns of mapped that lines 50-147 fill with a placeholder (the
\* current instant, random values, or a string built from one) when the
\* input table is t, rather than from a column of t
Placeholders(t) ==
    {c \in {CANONICAL_COLUMNS[k] : k \in 1..Len(CANONICAL_COLUMNS)} \ Columns(t) :
        CASE c = "Timestamp" -> ~HasCol(t, "Year")
          [] c = "Attack Type" -> ~HasCol(t, "attack_type")
          [] c = "Action Taken" -> ~HasCol(t, "outcome")
          [] c = "Severity Level" ->
                ~HasCol(t, "attack_severity") /\ ~HasCol(t, "Financial Loss (in Million $)")
          [] OTHER -> TRUE}

\* line 284: the column of mapped that mitigation_method is read from
\* ('Attack Signature' always exists after line 133)
MitigationSource(t) ==
    IF HasCol(t, "Defense Mechanism Used") THEN "Defense Mechanism Used"
    ELSE IF HasCol(t, "Defense Mechanism") THEN "Defense Mechanism"
    ELSE IF HasCol(t, "mitigation_method") THEN "mitigation_method"
    ELSE "Attack Signature"

\* <<field, column>>: the field is computed from the column of mapped
\*   line 131: a created 'Attack Signature' from 'Attack Type'
\*   lines 222-237: attack_severity from 'attack_severity', else from
\*                  'Severity Level' (which always exists after line 147)
\*   line 284: mitigation_method
DerivedFrom(t) ==
    (IF HasCol(t, "Attack Signature") THEN {} ELSE {<<"Attack Signature", "Attack Type">>})
    \cup {<<"attack_severity",
            IF HasCol(t, "attack_severity") THEN "attack_severity" ELSE "Severity Level">>}
    \cup {<<"mitigation_method", MitigationSource(t)>>}

(***************************************************************************)
(* find_dataset (lines 26-40).                                             *)
(***************************************************************************)
None == "None"

\* lines 28-33, in the order they are tried
candidates ==
    <<"Global_Cybersecurity_Threats_2015-2024_LARGE.csv",
      "Global_Cybersecurity_Threats_2015-2024.csv",
      "cybersecurity_large_synthesized_data.csv",
      "cybersecurity_attacks.csv">>

\* root.glob('*.csv')
IsCsv(name) == Len(name) >= 4 /\ SubSeq(name, Len(name) - 3, Len(name)) = ".csv"

\* find_dataset without the glob of lines 37-39
find_dataset_known_only(fs) ==
    IF \E i \in 1..Len(candidates) : candidates[i] \in fs
    THEN {candidates[CHOOSE i \in 1..Len(candidates) :
                        /\ candidates[i] \in fs
                        /\ \A j \in 1..(i - 1) : candidates[j] \notin fs]}
    ELSE {None}

\* the values find_dataset(root) can return when root holds the names fs: the
\* first candidate that exists; else the first path glob yields, in the order
\* the directory lists its entries (any of the CSVs); else None
find_dataset(fs) ==
    IF \E i \in 1..Len(candidates) : candidates[i] \in fs
    THEN {candidates[CHOOSE i \in 1..Len(candidates) :
                        /\ candidates[i] \in fs
                        /\ \A j \in 1..(i - 1) : candidates[j] \notin fs]}
    ELSE IF \E f \in fs : IsCsv(f) THEN {f \in fs : IsCsv(f)}
    ELSE {None}

(***************************************************************************)
(* load_best_dataset (lines 300-331).                                      *)
(***************************************************************************)
\* DetectVariant with the two tests in the other order
DetectVariantCanonicalFirst(t) ==
    IF HasCol(t, "Timestamp") /\ HasCol(t, "Attack Type")
    THEN "CANONICAL_LIKE"
    ELSE IF HasCol(t, "Country") /\ HasCol(t, "Financial Loss (in Million $)")
    THEN "GLOBAL_THREATS"
    ELSE "UNKNOWN"

\* lines 317, 323, 329-331: the schema variant, first match wins
DetectVariant(t) ==
    IF HasCol(t, "Country") /\ HasCol(t, "Financial Loss (in Million $)")
    THEN "GLOBAL_THREATS"
    ELSE IF HasCol(t, "Timestamp") /\ HasCol(t, "Attack Type")
    THEN "CANONICAL_LIKE"
    ELSE "UNKNOWN"

\* lines 323-327: only df['Timestamp'] is rewritten
MinimalMapping(t, now) == SetCol(t, "Timestamp", FillNa(ToDatetime(t.col["Timestamp"]), now))

\* lines 316-331 on the table read_csv returned
load_best_dataset(t, r, now) ==
    IF DetectVariant(t) = "CANONICAL_LIKE"
    THEN [out |-> MinimalMapping(t, now), r |-> r, e |-> "none"]
    ELSE map_global_schema(t, r, now)

(***************************************************************************)
(* generate_expanded_data.py: the record generator.                        *)
(* Python's `random` generator is a linear congruential stream; rnd is its *)
(* state, and the k-th draw of a record reads the state k steps on.        *)
(***************************************************************************)
PyNext(r) == (r * 13 + 7) % 1009

RECURSIVE PyAt(_, _)
PyAt(r, k) == IF k = 0 THEN r ELSE PyAt(PyNext(r), k - 1)

\* random.randint(a, b): both ends included
PyRandInt(a, b, raw) == a + (raw % (b - a + 1))

\* random.choice(seq)
PyChoice(seq, raw) == seq[1 + (raw % Len(seq))]

\* lines 40-47
ATTACK_TYPES ==
    <<"Malware", "Ransomware", "Phishing", "DDoS", "SQL Injection",
      "Man-in-the-Middle", "Zero-Day Exploit", "Brute Force",
      "Cross-Site Scripting", "Password Attack", "DNS Spoofing",
      "Session Hijacking", "Trojan", "Spyware", "Backdoor",
      "APT", "Cryptojacking", "IoT Attack", "Supply Chain Attack",
      "Business Email Compromise", "Credential Stuffing", "Rootkit", "Worm">>

\* severity_weights with the default range (1, 10)
severity_weights_wide(attack_type) ==
    CASE attack_type = "Ransomware" -> <<7, 10>>
      [] attack_type = "Zero-Day Exploit" -> <<8, 10>>
      [] attack_type = "APT" -> <<8, 10>>
      [] attack_type = "Supply Chain Attack" -> <<7, 10>>
      [] attack_type = "Rootkit" -> <<7, 9>>
      [] attack_type = "SQL Injection" -> <<6, 9>>
      [] attack_type = "Malware" -> <<5, 9>>
      [] attack_type = "Worm" -> <<5, 8>>
      [] attack_type = "Backdoor" -> <<6, 9>>
      [] attack_type = "DDoS" -> <<4, 8>>
      [] attack_type = "Trojan" -> <<5, 8>>
      [] attack_type = "IoT Attack" -> <<4, 7>>
      [] attack_type = "Cryptojacking" -> <<3, 6>>
      [] attack_type = "Phishing" -> <<3, 7>>
      [] attack_type = "Business Email Compromise" -> <<5, 8>>
      [] attack_type = "Credential Stuffing" -> <<4, 7>>
      [] attack_type = "Brute Force" -> <<3, 6>>
      [] attack_type = "Spyware" -> <<4, 7>>
      [] OTHER -> <<1, 10>>

\* lines 115-135: severity_weights.get(attack_type, (3, 8))
severity_weights(attack_type) ==
    CASE attack_type = "Ransomware" -> <<7, 10>>
      [] attack_type = "Zero-Day Exploit" -> <<8, 10>>
      [] attack_type = "APT" -> <<8, 10>>
      [] attack_type = "Supply Chain Attack" -> <<7, 10>>
      [] attack_type = "Rootkit" -> <<7, 9>>
      [] attack_type = "SQL Injection" -> <<6, 9>>
      [] attack_type = "Malware" -> <<5, 9>>
      [] attack_type = "Worm" -> <<5, 8>>
      [] attack_type = "Backdoor" -> <<6, 9>>
      [] attack_type = "DDoS" -> <<4, 8>>
      [] attack_type = "Trojan" -> <<5, 8>>
      [] attack_type = "IoT Attack" -> <<4, 7>>
      [] attack_type = "Cryptojacking" -> <<3, 6>>
      [] attack_type = "Phishing" -> <<3, 7>>
      [] attack_type = "Business Email Compromise" -> <<5, 8>>
      [] attack_type = "Credential Stuffing" -> <<4, 7>>
      [] attack_type = "Brute Force" -> <<3, 6>>
      [] attack_type = "Spyware" -> <<4, 7>>
      [] OTHER -> <<3, 8>>

\* random.random() < p for p = num / den
PyBelow(num, den, raw) == raw * den < num * 1009

\* random.uniform(a, b) in hundredths: a value of [a, b)
PyUniform(a, b, raw) == a + ((raw * (b - a)) \div 1009)

\* random.randint(a, b) over a range wider than the stream's modulus: both ends
\* are reached, and the values between are spread over the range
PyRandIntWide(a, b, raw) ==
    LET step == (b - a) \div 1008
    IN  IF raw = 1008 THEN b ELSE a + raw * step + ((raw * raw) % step)

\* round(x / d) for x, d > 0
RoundDiv(x, d) == (2 * x + d) \div (2 * d)

\* lines 30-38
COUNTRIES ==
    <<"USA", "UK", "Germany", "France", "China", "India", "Brazil", "Russia",
      "Australia", "Canada", "Japan", "South Korea", "Mexico", "Italy", "Spain",
      "Netherlands", "Singapore", "UAE", "Saudi Arabia", "Turkey", "Poland",
      "Sweden", "Norway", "Denmark", "Finland", "Belgium", "Switzerland",
      "Argentina", "Chile", "Colombia", "Peru", "Indonesia", "Thailand",
      "Vietnam", "Philippines", "Malaysia", "Pakistan", "Bangladesh", "Egypt",
      "Nigeria", "South Africa", "Kenya", "Morocco", "Israel", "New Zealand">>

\* lines 16-22 and 104: MAJOR_COUNTRIES.get(c, 0.5), in halves
CountryWeight(c) ==
    CASE c \in {"USA", "China"} -> 7
      [] c = "Russia" -> 6
      [] c \in {"UK", "Germany", "France", "India"} -> 5
      [] c \in {"Japan", "South Korea", "Brazil", "Canada", "Australia", "Italy", "Spain",
                "Netherlands"} -> 4
      [] c \in {"Poland", "Sweden", "Belgium", "Switzerland", "Israel", "Turkey"} -> 3
      [] OTHER -> 1

RECURSIVE CumWeight(_)
CumWeight(k) == IF k = 0 THEN 0 ELSE CumWeight(k - 1) + CountryWeight(COUNTRIES[k])

\* line 105: random.choices(COUNTRIES, weights=country_weights, k=1)[0]
PyChoices(raw) ==
    LET x == (raw * CumWeight(Len(COUNTRIES))) \div 1009
    IN  COUNTRIES[CHOOSE k \in 1..Len(COUNTRIES) : CumWeight(k - 1) <= x /\ x < CumWeight(k)]

\* lines 103-107, from the stream state r the record starts in
country_of(r) ==
    IF PyBelow(7, 10, PyAt(r, 1)) THEN PyChoices(PyAt(r, 2))
    ELSE PyChoice(COUNTRIES, PyAt(r, 2))

\* lines 84-88
ACTION_TAKEN ==
    <<"Blocked", "Quarantined", "Logged", "Alerted", "Isolated",
      "Patched", "Investigated", "Remediated", "Escalated",
      "Monitored", "Contained", "Restored">>

\* line 164
action_of(r) == PyChoice(ACTION_TAKEN, PyAt(r, 15))

\* outcome_of with 'Contained' counted as resolved
outcome_of_contained_resolved(action) ==
    IF action \in {"Blocked", "Quarantined"} THEN "Mitigated"
    ELSE IF action \in {"Logged", "Monitored"} THEN "Detected"
    ELSE "Resolved"

\* lines 201-206
outcome_of(action) ==
    IF action \in {"Blocked", "Quarantined", "Contained"} THEN "Mitigated"
    ELSE IF action \in {"Logged", "Monitored"} THEN "Detected"
    ELSE "Resolved"

\* lines 177, 179, 181, 183: the attack types of the four tested bands
HighLossTypes == {"Ransomware", "SQL Injection", "Supply Chain Attack", "APT"}

MediumLossTypes == {"Business Email Compromise", "Credential Stuffing"}

MinimalLossTypes == {"DDoS", "Brute Force", "Cryptojacking"}

VariableLossTypes == {"Backdoor", "Rootkit", "Trojan", "Spyware"}

\* data_loss_of with DDoS scaled by severity like the standard band
data_loss_of_ddos_scaled(attack_type, attack_severity, raw) ==
    IF attack_type \in {"Ransomware", "SQL Injection", "Supply Chain Attack", "APT"}
    THEN RoundDiv(PyUniform(100, 10000, raw) * attack_severity, 3)
    ELSE IF attack_type \in {"Business Email Compromise", "Credential Stuffing"}
    THEN RoundDiv(PyUniform(50, 2000, raw) * attack_severity, 4)
    ELSE IF attack_type \in {"Brute Force", "Cryptojacking"}
    THEN PyUniform(10, 500, raw)
    ELSE IF attack_type \in {"Backdoor", "Rootkit", "Trojan", "Spyware"}
    THEN RoundDiv(PyUniform(500, 8000, raw) * attack_severity, 4)
    ELSE RoundDiv(PyUniform(50, 5000, raw) * attack_severity, 5)

\* lines 177-186 and 219: round(data_loss, 2), in hundredths of a GB
data_loss_of(attack_type, attack_severity, raw) ==
    IF attack_type \in HighLossTypes
    THEN RoundDiv(PyUniform(100, 10000, raw) * attack_severity, 3)
    ELSE IF attack_type \in MediumLossTypes
    THEN RoundDiv(PyUniform(50, 2000, raw) * attack_severity, 4)
    ELSE IF attack_type \in MinimalLossTypes
    THEN PyUniform(10, 500, raw)
    ELSE IF attack_type \in VariableLossTypes
    THEN RoundDiv(PyUniform(500, 8000, raw) * attack_severity, 4)
    ELSE RoundDiv(PyUniform(50, 5000, raw) * attack_severity, 5)

\* the calendar: days of a year and of a month
IsLeap(y) == (y % 4 = 0 /\ y % 100 # 0) \/ y % 400 = 0

DaysInYear(y) == IF IsLeap(y) THEN 366 ELSE 365

DaysInMonth(y, m) ==
    IF m = 2 THEN (IF IsLeap(y) THEN 29 ELSE 28)
    ELSE IF m \in {4, 6, 9, 11} THEN 30 ELSE 31

RECURSIVE DaysBeforeMonth(_, _)
DaysBeforeMonth(y, m) == IF m = 1 THEN 0 ELSE DaysBeforeMonth(y, m - 1) + DaysInMonth(y, m - 1)

\* line 26: START_DATE = datetime(2019, 1, 1); instants of the generator are
\* seconds after it
StartYear == 2019

START_DATE == 0

RECURSIVE DaysBeforeYear(_)
DaysBeforeYear(y) == IF y = StartYear THEN 0 ELSE DaysBeforeYear(y - 1) + DaysInYear(y - 1)

\* datetime(y, m, d) - START_DATE, in days
DaysFromStart(y, m, d) == DaysBeforeYear(y) + DaysBeforeMonth(y, m) + (d - 1)

SecondsPerDay == 86400

\* line 27: END_DATE = datetime(2024, 12, 31)
END_DATE == DaysFromStart(2024, 12, 31) * SecondsPerDay

\* timestamp.year
RECURSIVE YearFrom(_, _)
YearFrom(y, days) == IF days < DaysInYear(y) THEN y ELSE YearFrom(y + 1, days - DaysInYear(y))

YearOf(t) == YearFrom(StartYear, t \div SecondsPerDay)

\* generate_timestamp drawing up to one day past END_DATE
generate_timestamp_day_over(r) ==
    START_DATE + PyRandIntWide(0, ((END_DATE - START_DATE) \div SecondsPerDay + 1) * SecondsPerDay,
                               PyAt(r, 1))

\* lines 90-96, from the stream state r it is called in: the draw is
\* random.randint, the stream seeded at line 13
generate_timestamp(r) ==
    LET delta_days == (END_DATE - START_DATE) \div SecondsPerDay
        total_seconds == delta_days * SecondsPerDay
    IN  START_DATE + PyRandIntWide(0, total_seconds, PyAt(r, 1))

\* the draws of one record, in the order of lines 103-208: random(), country,
\* year, attack_type, target_industry, target_system, attack_severity,
\* base_loss, loss factor, users, users factor, attack_source, vulnerability,
\* defense, action, base_resolution, resolution factor, data_loss,
\* attack_duration, timestamp
DrawsPerRecord == 20

\* lines 98-227, from generator state r: the fields of the record that the
\* properties below speak of (data_compromised_GB in hundredths)
generate_attack_record(r) ==
    LET attack_type == PyChoice(ATTACK_TYPES, PyAt(r, 4))
        severity_range == severity_weights(attack_type)
        attack_severity == PyRandInt(severity_range[1], severity_range[2], PyAt(r, 7))
        timestamp == generate_timestamp(PyAt(r, DrawsPerRecord - 1))
    IN  [timestamp |-> timestamp,
         year |-> YearOf(timestamp),
         location |-> country_of(r),
         attack_type |-> attack_type,
         attack_severity |-> attack_severity,
         data_compromised_GB |-> data_loss_of(attack_type, attack_severity, PyAt(r, 18)),
         outcome |-> outcome_of(action_of(r))]

\* the i-th record of a run of the generator started from the seeded state seed
RecordOfRun(seed, i) == generate_attack_record(PyAt(seed, (i - 1) * DrawsPerRecord))

\* the orders of 1..n
Orders(n) == {p \in [1..n -> 1..n] : \A i, j \in 1..n : i # j => p[i] # p[j]}

\* line 242: df.sort_values('timestamp').reset_index(drop=True); the default
\* quicksort leaves the order of equal timestamps open
sort_values(rows) ==
    {[i \in 1..Len(rows) |-> rows[p[i]]] : p \in
        {q \in Orders(Len(rows)) :
            \A i \in 1..(Len(rows) - 1) : rows[q[i]].timestamp <= rows[q[i + 1]].timestamp}}

(***************************************************************************)
(* modules_v2/data_loader_global.py: load_global_data and filter_data.     *)
(***************************************************************************)
\* line 11: the default of file_path
DefaultFilePath == "Global_Cybersecurity_Threats_2015-2024_LARGE.csv"

\* a column of strings does not compare or divide: pd.cut, `/` and max raise
\* TypeError
IsNumericColumn(cells) == \A i \in 1..Len(cells) : IsNum(cells[i]) \/ IsNull(cells[i])

\* pd.cut(x, bins=bins, labels=labels), one element: the intervals are closed
\* on the right, and a value outside of them is NaN
Cut(x, bins, labels) ==
    IF IsNull(x) THEN Null
    ELSE IF \E k \in 1..Len(labels) : NumGt(x, bins[k]) /\ ~NumGt(x, bins[k + 1])
    THEN Str(labels[CHOOSE k \in 1..Len(labels) : NumGt(x, bins[k]) /\ ~NumGt(x, bins[k + 1])])
    ELSE Null

\* line 53: (x / 10).clip(1, 10).round(1), one element, in tenths
SeverityScore(x) ==
    IF IsNull(x) THEN Null
    ELSE IF ~NumGt(x, 10) THEN Frac(10, 10)
    ELSE IF NumGe(x, 100) THEN Frac(100, 10)
    ELSE Frac(RoundDiv(x.n, x.d), 10)

RECURSIVE Gcd(_, _)
Gcd(a, b) == IF b = 0 THEN a ELSE Gcd(b, a % b)

Abs(x) == IF x < 0 THEN 0 - x ELSE x

\* a fraction in lowest terms with a positive denominator; a zero denominator
\* stands for an infinity of the numerator's sign
Reduce(n, d) ==
    IF d = 0 THEN Frac(IF n < 0 THEN 0 - 1 ELSE 1, 0)
    ELSE LET g == Gcd(Abs(n), Abs(d))
         IN  IF d < 0 THEN Frac((0 - n) \div g, (0 - d) \div g) ELSE Frac(n \div g, d \div g)

\* Series.max(): NaN is skipped; NaN for a column without a number
RECURSIVE ColMaxFrom(_, _, _)
ColMaxFrom(cells, k, best) ==
    IF k > Len(cells) THEN best
    ELSE IF IsNull(cells[k]) THEN ColMaxFrom(cells, k + 1, best)
    ELSE IF IsNull(best) \/ cells[k].n * best.d > best.n * cells[k].d
    THEN ColMaxFrom(cells, k + 1, cells[k])
    ELSE ColMaxFrom(cells, k + 1, best)

ColMax(cells) == ColMaxFrom(cells, 1, Null)

\* lines 64, 65: (x / max) * 50, one element; 0 / 0 is NaN, x / 0 an infinity
Share(x, mx) ==
    IF IsNull(x) \/ IsNull(mx) THEN Null
    ELSE IF mx.n = 0 /\ x.n = 0 THEN Null
    ELSE Reduce(50 * x.n * mx.d, x.d * mx.n)

\* round(x, 2) of n / d for d > 0, in hundredths
Round2(n, d) ==
    IF n >= 0 THEN Frac(RoundDiv(100 * n, d), 100)
    ELSE Frac(0 - RoundDiv(100 * (0 - n), d), 100)

\* lines 63-66, one element
ImpactScore(a, b) ==
    IF IsNull(a) \/ IsNull(b) THEN Null
    ELSE IF a.d = 0 THEN a
    ELSE IF b.d = 0 THEN b
    ELSE Round2(a.n * b.d + b.n * a.d, a.d * b.d)

\* lines 42-68 on the table df: the processed table, or the exception raised
process_global(t) ==
    LET loss == t.col["Financial Loss (in Million $)"]
        hours == t.col["Incident Resolution Time (in Hours)"]
        users == t.col["Number of Affected Users"]
        n == NRows(t)
    IN  IF ~HasCol(t, "Year") THEN [out |-> EmptyFrame, e |-> "KeyError"]
        ELSE IF DatetimeRaises(YearStrings(t)) THEN [out |-> EmptyFrame, e |-> "ValueError"]
        ELSE IF ~HasCol(t, "Financial Loss (in Million $)")
        THEN [out |-> EmptyFrame, e |-> "KeyError"]
        ELSE IF ~IsNumericColumn(loss) THEN [out |-> EmptyFrame, e |-> "TypeError"]
        ELSE IF ~HasCol(t, "Incident Resolution Time (in Hours)")
        THEN [out |-> EmptyFrame, e |-> "KeyError"]
        ELSE IF ~IsNumericColumn(hours) THEN [out |-> EmptyFrame, e |-> "TypeError"]
        ELSE IF ~HasCol(t, "Number of Affected Users")
        THEN [out |-> EmptyFrame, e |-> "KeyError"]
        ELSE IF ~IsNumericColumn(users) THEN [out |-> EmptyFrame, e |-> "TypeError"]
        ELSE [e |-> "none",
              out |->
                SetCol(SetCol(SetCol(SetCol(SetCol(t,
                    "Date", ToDatetime(YearStrings(t))),
                    "Severity_Category",
                        [i \in 1..n |-> Cut(loss[i], <<0, 25, 50, 75, 100>>,
                                            <<"Low", "Medium", "High", "Critical">>)]),
                    "Severity_Score", [i \in 1..n |-> SeverityScore(loss[i])]),
                    "Resolution_Category",
                        [i \in 1..n |-> Cut(hours[i], <<0, 24, 48, 72>>,
                                            <<"Fast", "Moderate", "Slow">>)]),
                    "Impact_Score",
                        [i \in 1..n |-> ImpactScore(Share(loss[i], ColMax(loss)),
                                                    Share(users[i], ColMax(users)))])]

\* lines 70-76: both handlers report with st.error and end the script run
\* with st.stop()
StopWith(exc, a, r) ==
    [out |-> EmptyFrame, e |-> exc, pc |-> "global_stopped", a |-> a, r |-> r]

\* lines 42-76 on the table the first part of the function obtained; a is the
\* adapter's outcome and r the state it left numpy's generator in
ProcessOrStop(t, a, r) ==
    Only({IF P.e = "none"
          THEN [out |-> P.out, e |-> "none", pc |-> "global_loaded", a |-> a, r |-> r]
          ELSE StopWith(P.e, a, r) : P \in {process_global(t)}})

\* the outcome of the adapter when it is not called
NotAdapted == [out |-> EmptyFrame, e |-> "not called"]

\* lines 25-76.  exists: Path(file_path).exists(); importable: whether the
\* relative import of line 35 resolves, which depends on how the package was
\* loaded; found: what find_dataset('.') returns; t: the content of the file
\* that is read.  st.stop() raises a control exception that `except
\* Exception` does not catch; any other failure of the adapter is caught at
\* line 38 and followed by pd.read_csv(file_path), which raises
\* FileNotFoundError.
load_global_data(exists, importable, found, t, r, now) ==
    IF exists THEN ProcessOrStop(t, NotAdapted, r)
    ELSE IF ~importable THEN StopWith("FileNotFoundError", NotAdapted, r)
    ELSE IF found = None THEN StopWith("st.stop", [out |-> EmptyFrame, e |-> "st.stop"], r)
    ELSE Only({IF A.e # "none"
               THEN StopWith("FileNotFoundError", [out |-> EmptyFrame, e |-> A.e], A.r)
               ELSE ProcessOrStop(A.out, [out |-> A.out, e |-> "none"], A.r) :
               A \in {load_best_dataset(t, r, now)}})

\* an empty filters dict
NoFilters == [k \in {} |-> <<>>]

\* filters.get(key) is truthy: the key is present with a non-empty value
Truthy(f, key) == key \in DOMAIN f /\ f[key] # <<>>

Elems(seq) == {seq[i] : i \in 1..Len(seq)}

\* filtered[mask]: the rows at the positions of pos, in their order, under
\* their labels
TakeRows(t, pos) ==
    LET ks == SelectSeq([i \in 1..NRows(t) |-> i], LAMBDA i : i \in pos)
    IN  [idx |-> [j \in 1..Len(ks) |-> t.idx[ks[j]]],
         col |-> [c \in Columns(t) |-> [j \in 1..Len(ks) |-> t.col[c][ks[j]]]]]

\* YearStep with the end of the range left out
YearStepExclusive(F, f) ==
    IF F.e # "none" \/ ~Truthy(f, "year_range") THEN F
    ELSE IF ~HasCol(F.out, "Year") THEN [F EXCEPT !.e = "KeyError"]
    ELSE IF ~IsNumericColumn(F.out.col["Year"]) THEN [F EXCEPT !.e = "TypeError"]
    ELSE [F EXCEPT !.out = TakeRows(F.out,
            {i \in 1..NRows(F.out) :
                LET y == F.out.col["Year"][i]
                IN  IsNum(y) /\ NumGe(y, f["year_range"][1]) /\ ~NumGe(y, f["year_range"][2])})]

\* lines 158-163: every comparison with NaN is False
YearStep(F, f) ==
    IF F.e # "none" \/ ~Truthy(f, "year_range") THEN F
    ELSE IF ~HasCol(F.out, "Year") THEN [F EXCEPT !.e = "KeyError"]
    ELSE IF ~IsNumericColumn(F.out.col["Year"]) THEN [F EXCEPT !.e = "TypeError"]
    ELSE [F EXCEPT !.out = TakeRows(F.out,
            {i \in 1..NRows(F.out) :
                LET y == F.out.col["Year"][i]
                IN  IsNum(y) /\ NumGe(y, f["year_range"][1]) /\ ~NumGt(y, f["year_range"][2])})]

\* lines 165-184, one of them: filtered = filtered[filtered[c].isin(filters[key])]
IsinStep(F, f, key, c) ==
    IF F.e # "none" \/ ~Truthy(f, key) THEN F
    ELSE IF ~HasCol(F.out, c) THEN [F EXCEPT !.e = "KeyError"]
    ELSE [F EXCEPT !.out = TakeRows(F.out,
            {i \in 1..NRows(F.out) :
                IsStr(F.out.col[c][i]) /\ F.out.col[c][i].s \in Elems(f[key])})]

\* lines 165-184: the filter keys and the columns they test, in order
IsinFilters ==
    <<<<"countries", "Country">>,
      <<"attack_types", "Attack Type">>,
      <<"industries", "Target Industry">>,
      <<"sources", "Attack Source">>,
      <<"vulnerabilities", "Security Vulnerability Type">>,
      <<"defense_mechanisms", "Defense Mechanism Used">>,
      <<"severity_categories", "Severity_Category">>>>

RECURSIVE IsinFrom(_, _, _)
IsinFrom(k, F, f) ==
    IF k > Len(IsinFilters) THEN F
    ELSE IsinFrom(k + 1, Only({IsinStep(G, f, IsinFilters[k][1], IsinFilters[k][2]) : G \in {F}}),
                  f)

\* lines 156-186: the table returned (EmptyFrame when it raised) and the
\* exception
filter_data(t, f) ==
    Only({IF G.e # "none" THEN [out |-> EmptyFrame, e |-> G.e] ELSE G :
          G \in {IsinFrom(1, Only({YearStep(F, f) : F \in {[out |-> t, e |-> "none"]}}), f)}})

(***************************************************************************)
(* Input tables.  A header is a base schema plus a few further columns;    *)
(* the cells of the further columns range over ColDomain, the cells of the *)
(* base columns hold DefaultCell.                                          *)
(***************************************************************************)
ColDomain(c) ==
    CASE c = "Timestamp" -> {Str("2021-03-04"), Str("not a date"), Null}
      [] c = "timestamp" -> {Ts(DateOrd(2022, 5, 6), 7), Str("yesterday")}
      [] c = "Year" -> {Num(2020), Str("n/a"), Null}
      [] c = "Attack Type" -> {Str("Phishing"), Num(7), Null}
      [] c = "attack_type" -> {Str("Worm"), Null}
      [] c = "Device Information" -> {Str("Router"), Null}
      [] c = "Target Industry" -> {Str("Banking"), Null}
      [] c = "Action Taken" -> {Str("Ignored"), Null}
      [] c = "outcome" -> {Str("Success"), Null}
      [] c = "Incident Resolution Time (in Hours)" -> {Num(12), Num(0), Str("soon"), Null}
      [] c = "Severity Level" ->
            {Str("Critical"), Str("HIGH"), Str("Medium"), Str("low"),
             Str("Low to High"), Str("n/a"), Null}
      [] c = "attack_severity" -> {Num(0), Num(5), Num(8), Num(15), Num(-2), Str("abc"), Null}
      [] c = "Financial Loss (in Million $)" ->
            {Num(120), Num(60), Num(20), Num(5), Num(-4), Str("n/a"), Null}
      [] c = "Number of Affected Users" ->
            {Num(200000), Num(50000), Num(500), Str("many"), Null}
      [] c = "Country" -> {Str("USA"), Str("Atlantis")}
      [] c = "location" -> {Str("Paris"), Null}
      [] c = "Industry" -> {Str("Energy"), Null}
      [] c = "data_compromised_GB" -> {Num(12), Num(-1), Str("lots"), Null}
      [] c = "mitigation_method" -> {Str("Patch"), Null}
      [] c = "attack_duration_min" -> {Num(45), Num(-5), Str("long"), Null}
      [] c = "response_time_min" -> {Num(9), Str("fast"), Null}
      [] c = "user_role" -> {Str("Admin"), Null}
      [] c = "Target" -> {Str("Payroll")}
      [] c = "target_system" -> {Str("Mail Server")}
      [] c = "Attack Signature" -> {Str("Known Pattern A")}
      [] c = "Source IP Address" -> {Str("10.0.0.1")}
      [] c = "Destination IP Address" -> {Str("10.0.0.2")}
      [] c = "attacker_ip" -> {Str("1.2.3.4")}
      [] c = "target_ip" -> {Str("5.6.7.8")}
      [] c = "Latitude" -> {Num(48)}
      [] c = "industry" -> {Str("Retail")}
      [] c = "Defense Mechanism Used" -> {Str("Firewall")}
      [] c = "Defense Mechanism" -> {Str("VPN")}
      [] c = "Duration (min)" -> {Num(20)}
      [] c = "Response Time (min)" -> {Num(11)}
      [] c = "security_tools_used" -> {Str("SIEM")}
      [] c = "Protocol" -> {Str("FTP")}
      [] c = "Attack Source" -> {Str("Insider")}
      [] c = "Security Vulnerability Type" -> {Str("Weak Passwords")}
      [] OTHER -> {Str("x")}

\* the columns a header may add to its base
ColNames ==
    {"Timestamp", "timestamp", "Year", "Attack Type", "attack_type",
     "Device Information", "Target Industry", "Action Taken", "outcome",
     "Incident Resolution Time (in Hours)", "Severity Level", "attack_severity",
     "Financial Loss (in Million $)", "Number of Affected Users", "Country",
     "location", "Industry", "data_compromised_GB", "mitigation_method",
     "attack_duration_min", "response_time_min", "user_role", "Target",
     "target_system", "Attack Signature", "Source IP Address",
     "Destination IP Address", "attacker_ip", "target_ip", "Latitude", "industry",
     "Defense Mechanism Used", "Defense Mechanism", "Duration (min)",
     "Response Time (min)", "security_tools_used", "Protocol", "Notes"}

\* a valid cell of each column
DefaultCell(c) ==
    CASE c = "Timestamp" -> Str("2021-03-04")
      [] c = "timestamp" -> Ts(DateOrd(2022, 5, 6), 7)
      [] c = "attack_severity" -> Num(8)
      [] c = "Financial Loss (in Million $)" -> Num(60)
      [] c = "Number of Affected Users" -> Num(50000)
      [] c = "Incident Resolution Time (in Hours)" -> Num(12)
      [] c = "data_compromised_GB" -> Num(12)
      [] c = "attack_duration_min" -> Num(45)
      [] c = "response_time_min" -> Num(9)
      [] c = "Year" -> Num(2020)
      [] OTHER -> CHOOSE v \in ColDomain(c) : IsStr(v)

\* the header of Global_Cybersecurity_Threats_2015-2024.csv
GlobalThreatsHeader ==
    {"Country", "Year", "Attack Type", "Target Industry", "Financial Loss (in Million $)",
     "Number of Affected Users", "Attack Source", "Security Vulnerability Type",
     "Defense Mechanism Used", "Incident Resolution Time (in Hours)"}

Bases ==
    {{}, {"Country", "Financial Loss (in Million $)"}, {"Timestamp", "Attack Type"},
     {"Country", "Financial Loss (in Million $)", "Timestamp", "Attack Type"},
     GlobalThreatsHeader, StandardFields}

MaxCols == 2

RECURSIVE SubsetsUpTo(_, _)
SubsetsUpTo(S, k) ==
    IF k = 0 THEN {{}}
    ELSE LET P == SubsetsUpTo(S, k - 1) IN P \cup {p \cup {c} : p \in P, c \in S}

\* the row labels: read_csv's RangeIndex, or the labels 1..n of a caller's frame
Indexes(n) == IF n = 0 THEN {RangeIndex(0)} ELSE {RangeIndex(n), [i \in 1..n |-> i]}

\* every assignment of cell columns to the header base \cup varied
RECURSIVE Fills(_, _, _)
Fills(cols, varied, n) ==
    IF cols = {} THEN {[c \in {} |-> <<>>]}
    ELSE LET c == CHOOSE x \in cols : TRUE
             vals == IF c \in varied THEN [1..n -> ColDomain(c)]
                     ELSE {[i \in 1..n |-> DefaultCell(c)]}
         IN  {[x \in (DOMAIN f) \cup {c} |-> IF x = c THEN v ELSE f[x]] :
                 f \in Fills(cols \ {c}, varied, n), v \in vals}

TablesOver(base, varied, n) ==
    {[idx |-> ix, col |-> f] : ix \in Indexes(n), f \in Fills(base \cup varied, varied, n)}

\* a bare header with up to k columns, or a base schema with up to k - 1 more;
\* up to `rows` rows
VariedOver(b, k) ==
    IF b = {} THEN SubsetsUpTo(ColNames, k) ELSE SubsetsUpTo(ColNames, k - 1)

InputTables(k, rows) ==
    UNION {UNION {TablesOver(b, v, n) : v \in VariedOver(b, k), n \in 0..rows} : b \in Bases}

(***************************************************************************)
(* The state machine.                                                      *)
(***************************************************************************)
InitOver(tables) ==
    /\ df \in tables
    /\ rng \in 0..MaxSeed
    /\ rng0 = rng
    /\ clock = 0
    /\ pc = "idle"
    /\ variant = ""
    /\ out = EmptyFrame
    /\ err = "none"
    /\ out2 = EmptyFrame
    /\ err2 = "none"
    /\ files = {}
    /\ ds = ""
    /\ records = <<>>
    /\ rnd = 0
    /\ pyseed = 0
    /\ num_records = 0
    /\ dataset = <<>>
    /\ genpc = "generating"
    /\ filters = NoFilters
    /\ filtered = EmptyFrame
    /\ ferr = "none"

Init == InitOver(InputTables(MaxCols, MaxRows))

\* time passes between the first call and the second
Tick ==
    /\ pc = "mapped"
    /\ clock < MaxClock
    /\ clock' = clock + 1
    /\ UNCHANGED <<df, rng, pc, variant, out, err, out2, err2, rng0, files, ds>>
    /\ UNCHANGED genVars
    /\ UNCHANGED globalVars

\* a caller passes df to map_global_schema
MapGlobalSchema ==
    /\ pc = "idle"
    /\ \E res \in {map_global_schema(df, rng, Now(clock))} :
           /\ out' = res.out
           /\ err' = res.e
           /\ rng' = res.r
    /\ rng0' = rng
    /\ pc' = "mapped"
    /\ UNCHANGED <<df, clock, variant, out2, err2, files, ds>>
    /\ UNCHANGED genVars
    /\ UNCHANGED globalVars

\* the caller passes the returned table to map_global_schema again
Renormalize ==
    /\ pc = "mapped"
    /\ err = "none"
    /\ \E res \in {map_global_schema(out, rng, Now(clock))} :
           /\ out2' = res.out
           /\ err2' = res.e
           /\ rng' = res.r
    /\ rng0' = rng
    /\ pc' = "renormalized"
    /\ UNCHANGED <<df, clock, variant, out, err, files, ds>>
    /\ UNCHANGED genVars
    /\ UNCHANGED globalVars

\* the caller runs map_global_schema(df) a second time, from the random state
\* the first run started from
Rerun ==
    /\ pc = "mapped"
    /\ \E res \in {map_global_schema(df, rng0, Now(clock))} :
           /\ out2' = res.out
           /\ err2' = res.e
           /\ rng' = res.r
    /\ pc' = "rerun"
    /\ UNCHANGED <<df, clock, variant, out, err, rng0, files, ds>>
    /\ UNCHANGED genVars
    /\ UNCHANGED globalVars

\* the names a root directory may hold
FileNames ==
    {candidates[i] : i \in 1..Len(candidates)} \cup {"data.csv", "export.csv", "notes.txt"}

\* a few root directories: empty, without a CSV, with a known dataset, with
\* two CSVs of other names
RootDirs ==
    {{}, {"notes.txt"}, {"notes.txt", "cybersecurity_attacks.csv"}, {"data.csv", "export.csv"}}

\* load_best_dataset(root) where root is one of dirs; df is what read_csv
\* makes of the file found (its index is a RangeIndex)
LoadBestDatasetOver(dirs) ==
    /\ pc = "idle"
    /\ df.idx = RangeIndex(NRows(df))
    /\ \E fs \in dirs : \E found \in find_dataset(fs) :
         /\ files' = fs
         /\ ds' = found
         /\ IF found # None
            THEN \E res \in {load_best_dataset(df, rng, Now(clock))} :
                     /\ variant' = DetectVariant(df)
                     /\ out' = res.out
                     /\ err' = res.e
                     /\ rng' = res.r
                     /\ pc' = "loaded"
            ELSE /\ variant' = ""
                 /\ out' = EmptyFrame
                 /\ err' = "st.stop"
                 /\ rng' = rng
                 /\ pc' = "stopped"
    /\ rng0' = rng
    /\ UNCHANGED <<df, clock, out2, err2>>
    /\ UNCHANGED genVars
    /\ UNCHANGED globalVars

LoadBestDataset == LoadBestDatasetOver(RootDirs)

\* a turn of the loop whose record comes from a stream state the seed does
\* not determine
GenerateAttackRecordUnseeded ==
    /\ genpc = "generating"
    /\ Len(records) < num_records
    /\ \E r \in 0..MaxPySeed : records' = Append(records, generate_attack_record(r))
    /\ rnd' = PyAt(rnd, DrawsPerRecord)
    /\ UNCHANGED <<pyseed, num_records, dataset, genpc>>
    /\ UNCHANGED adapterVars
    /\ UNCHANGED globalVars

\* lines 233-237: one turn of the loop of generate_dataset
GenerateAttackRecord ==
    /\ genpc = "generating"
    /\ Len(records) < num_records
    /\ \E rec \in {generate_attack_record(rnd)} : records' = Append(records, rec)
    /\ rnd' = PyAt(rnd, DrawsPerRecord)
    /\ UNCHANGED <<pyseed, num_records, dataset, genpc>>
    /\ UNCHANGED adapterVars
    /\ UNCHANGED globalVars

\* SortAndReturn returning the records in generation order
ReturnUnsorted ==
    /\ genpc = "generating"
    /\ Len(records) = num_records
    /\ IF num_records = 0
       THEN dataset' = <<>> /\ genpc' = "KeyError"
       ELSE dataset' = records /\ genpc' = "returned"
    /\ UNCHANGED <<records, rnd, pyseed, num_records>>
    /\ UNCHANGED adapterVars
    /\ UNCHANGED globalVars

\* lines 239-250 after the loop: pd.DataFrame(records) has the columns of the
\* records, so without a record there is no 'timestamp' column and
\* sort_values raises KeyError
SortAndReturn ==
    /\ genpc = "generating"
    /\ Len(records) = num_records
    /\ IF num_records = 0
       THEN dataset' = <<>> /\ genpc' = "KeyError"
       ELSE dataset' \in sort_values(records) /\ genpc' = "returned"
    /\ UNCHANGED <<records, rnd, pyseed, num_records>>
    /\ UNCHANGED adapterVars
    /\ UNCHANGED globalVars

Next == Tick \/ MapGlobalSchema \/ Renormalize \/ Rerun \/ LoadBestDataset

Spec == Init /\ [][Next]_vars

(***************************************************************************)
(* Specifications of the single functions, over inputs chosen for them.    *)
(***************************************************************************)
\* no further column, or one
OneMore == {{}} \cup {{c} : c \in ColNames}

\* map_global_schema on tables with a 'Severity Level' column
SeverityTables(rows) ==
    UNION {TablesOver({}, {"Severity Level"} \cup v, n) : v \in OneMore, n \in 0..rows}

NextMap == MapGlobalSchema

SpecSeverity == InitOver(SeverityTables(MaxRows)) /\ [][NextMap]_vars

\* load_best_dataset on every combination of the four columns the detection
\* reads, with one further column
DetectionColumns == {"Country", "Financial Loss (in Million $)", "Timestamp", "Attack Type"}

LoadTables(rows) ==
    {t \in UNION {TablesOver(b, v, n) : b \in SUBSET DetectionColumns, v \in OneMore,
                                       n \in 0..rows} :
        t.idx = RangeIndex(NRows(t))}

NextLoad == LoadBestDataset

SpecLoad == InitOver(LoadTables(MaxRows)) /\ [][NextLoad]_vars

\* load_best_dataset on every root directory over FileNames, the file found
\* holding any combination of the four columns the detection reads
FoundTables(rows) ==
    {t \in UNION {TablesOver(b, {}, n) : b \in SUBSET DetectionColumns, n \in 0..rows} :
        t.idx = RangeIndex(NRows(t))}

FindAndLoad == LoadBestDatasetOver(SUBSET FileNames)

SpecFind == InitOver(FoundTables(MaxRows)) /\ [][FindAndLoad]_vars

\* map_global_schema on tables of up to MaxPairRows rows of the Global-Threats
\* shape, one further column varying
MaxPairRows == 2

RowColumns == {"Attack Type", "Year", "Timestamp", "Severity Level"}

RowTables(rows) ==
    UNION {TablesOver({"Country", "Financial Loss (in Million $)"}, {v}, n) :
              v \in RowColumns, n \in 0..rows}

NextRows == MapGlobalSchema

SpecRows == InitOver(RowTables(MaxPairRows)) /\ [][NextRows]_vars

\* the rows of a file of the Global-Threats schema: three plain rows of
\* different years, countries and losses, a row without a year, a row
\* without a loss
GlobalRow(year, country, attack, industry, loss, users, source, vuln, defense, hours) ==
    [c \in GlobalThreatsHeader |->
        CASE c = "Year" -> year
          [] c = "Country" -> Str(country)
          [] c = "Attack Type" -> Str(attack)
          [] c = "Target Industry" -> Str(industry)
          [] c = "Financial Loss (in Million $)" -> loss
          [] c = "Number of Affected Users" -> Num(users)
          [] c = "Attack Source" -> Str(source)
          [] c = "Security Vulnerability Type" -> Str(vuln)
          [] c = "Defense Mechanism Used" -> Str(defense)
          [] OTHER -> Num(hours)]

GlobalRowSet ==
    {GlobalRow(Num(2019), "USA", "Phishing", "Banking", Num(20), 500, "Insider",
               "Weak Passwords", "Firewall", 12),
     GlobalRow(Num(2021), "UK", "DDoS", "Retail", Num(120), 200000, "Hacker Group",
               "Zero-day", "VPN", 60),
     GlobalRow(Num(2020), "USA", "Phishing", "Retail", Num(60), 50000, "Insider",
               "Zero-day", "Firewall", 30),
     GlobalRow(Str("n/a"), "UK", "DDoS", "Banking", Num(5), 500, "Nation-state",
               "Weak Passwords", "VPN", 12),
     GlobalRow(Num(2020), "UK", "Phishing", "Banking", Null, 50000, "Nation-state",
               "Zero-day", "VPN", 80)}

DropCol(t, c) == [t EXCEPT !.col = [x \in (DOMAIN t.col) \ {c} |-> t.col[x]]]

\* files of the Global-Threats schema of up to `rows` rows
GlobalFull(rows) ==
    UNION {{[idx |-> RangeIndex(n),
             col |-> [c \in GlobalThreatsHeader |-> [i \in 1..n |-> rs[i][c]]]] :
               rs \in [1..n -> GlobalRowSet]} : n \in 0..rows}

\* and the same files without their Country or their Year column
GlobalTables(rows) ==
    GlobalFull(rows) \cup {DropCol(t, "Country") : t \in GlobalFull(rows)}
                     \cup {DropCol(t, "Year") : t \in GlobalFull(rows)}

\* the project directories: those of RootDirs, and one that holds the
\* requested file
GlobalDirs == RootDirs \cup {{DefaultFilePath, "notes.txt"}}

\* load_global_data(): df is the content of the file that gets read
LoadGlobalData ==
    /\ pc = "idle"
    /\ \E fs \in GlobalDirs : \E importable \in BOOLEAN : \E found \in find_dataset(fs) :
       \E res \in {load_global_data(DefaultFilePath \in fs, importable, found, df, rng,
                                    Now(clock))} :
         /\ files' = fs
         /\ ds' = IF res.a.e = "not called" THEN "" ELSE found
         /\ variant' = IF res.a.e \in {"not called", "st.stop"} THEN "" ELSE DetectVariant(df)
         /\ out' = res.out
         /\ err' = res.e
         /\ out2' = res.a.out
         /\ err2' = res.a.e
         /\ rng' = res.r
         /\ pc' = res.pc
    /\ rng0' = rng
    /\ UNCHANGED <<df, clock>>
    /\ UNCHANGED genVars
    /\ UNCHANGED globalVars

\* the filters a caller passes: none, one filter at a time (also with an
\* empty value), and combinations
FilterChoices ==
    {NoFilters,
     [year_range |-> <<2019, 2020>>],
     [year_range |-> <<2020, 2021>>],
     [year_range |-> <<2021, 2019>>],
     [year_range |-> <<>>, countries |-> <<>>],
     [countries |-> <<"USA">>],
     [countries |-> <<"UK", "USA">>],
     [attack_types |-> <<"DDoS">>],
     [industries |-> <<"Retail">>],
     [sources |-> <<"Insider">>],
     [vulnerabilities |-> <<"Zero-day">>],
     [defense_mechanisms |-> <<"Firewall">>],
     [severity_categories |-> <<"Low", "High">>],
     [severity_categories |-> <<"Critical">>],
     [year_range |-> <<2020, 2021>>, countries |-> <<"USA">>, attack_types |-> <<>>],
     [year_range |-> <<2019, 2021>>, industries |-> <<"Retail">>,
      severity_categories |-> <<"High">>]}

\* filter_data(df, filters) on the table load_global_data returned
FilterData ==
    /\ pc = "global_loaded"
    /\ \E f \in FilterChoices : \E res \in {filter_data(out, f)} :
         /\ filters' = f
         /\ filtered' = res.out
         /\ ferr' = res.e
    /\ pc' = "filtered"
    /\ UNCHANGED <<df, rng, clock, variant, out, err, out2, err2, rng0, files, ds>>
    /\ UNCHANGED genVars

NextGlobal == LoadGlobalData \/ FilterData

SpecGlobal == InitOver(GlobalTables(MaxPairRows)) /\ [][NextGlobal]_vars

\* the generator alone, from any state of the seeded stream
InitGen ==
    /\ df = EmptyFrame
    /\ rng = 0
    /\ rng0 = 0
    /\ clock = 0
    /\ pc = "idle"
    /\ variant = ""
    /\ out = EmptyFrame
    /\ err = "none"
    /\ out2 = EmptyFrame
    /\ err2 = "none"
    /\ files = {}
    /\ ds = ""
    /\ records = <<>>
    /\ rnd \in 0..MaxPySeed
    /\ pyseed = rnd
    /\ num_records \in 0..MaxRecords
    /\ dataset = <<>>
    /\ genpc = "generating"
    /\ filters = NoFilters
    /\ filtered = EmptyFrame
    /\ ferr = "none"

NextGen == GenerateAttackRecord \/ SortAndReturn

SpecGen == InitGen /\ [][NextGen]_vars

\* map_global_schema on every combination of the columns the data volume and
\* the severity label are read from, one column at a time ranging over its
\* values
DataColumns ==
    {"data_compromised_GB", "Financial Loss (in Million $)", "Number of Affected Users",
     "Severity Level"}

DataTablesOver(h, rows) ==
    UNION {TablesOver(h \ v, v, n) : v \in {{}} \cup {{c} : c \in h}, n \in 0..rows}

DataTables(rows) == UNION {DataTablesOver(h, rows) : h \in SUBSET DataColumns}

SpecData == InitOver(DataTables(MaxRows)) /\ [][NextMap]_vars

(***************************************************************************)
(* The claims.                                                             *)
(***************************************************************************)
\* a call returned a table
Returned == pc \in {"mapped", "renormalized", "loaded"} /\ err = "none"

\* map_global_schema(df) returned the table out
MapReturned == pc \in {"mapped", "renormalized"} /\ err = "none"

IsWhole(c) == IsNum(c) /\ c.n % c.d = 0

\* the declared type of each canonical field (section 3 of the specification)
WellTyped(f, c) ==
    CASE f = "timestamp" -> IsTs(c)
      [] f = "attack_severity" -> IsWhole(c)
      [] f \in {"data_compromised_GB", "attack_duration_min", "response_time_min"} -> IsNum(c)
      [] OTHER -> IsStr(c)

LossColumn == "Financial Loss (in Million $)"

\* C1: Totality.  Every row of every table the normalizer returns, under
\* every schema variant, has all 15 canonical fields present, non-null and of
\* the declared type.
C1_Totality ==
    Returned =>
        /\ StandardFields \subseteq Columns(out)
        /\ \A f \in StandardFields : \A i \in 1..NRows(out) : WellTyped(f, out.col[f][i])

\* C2: Severity bound.  In every row of every returned table attack_severity
\* is an integer of 1..10, whatever the input column held.
C2_SeverityBound ==
    (Returned /\ HasCol(out, "attack_severity")) =>
        \A i \in 1..NRows(out) :
            LET c == out.col["attack_severity"][i]
            IN  IsWhole(c) /\ c.n \div c.d >= 1 /\ c.n \div c.d <= 10

\* the severity the specification derives from a loss in million $
ClaimedLossSeverity(x) ==
    IF x > 100 THEN 9 ELSE IF x > 50 THEN 7 ELSE IF x > 10 THEN 5 ELSE 3

\* C3: Severity from financial loss.  With a financial-loss column and neither
\* attack_severity nor 'Severity Level', a row of loss x gets severity 9, 7,
\* 5 or 3 as x > 100, x > 50, x > 10 or not.
C3_SeverityFromLoss ==
    (MapReturned /\ HasCol(df, LossColumn) /\ ~HasCol(df, "attack_severity")
        /\ ~HasCol(df, "Severity Level")) =>
        \A i \in 1..NRows(df) :
            IsNum(df.col[LossColumn][i]) =>
                out.col["attack_severity"][i] = Num(ClaimedLossSeverity(df.col[LossColumn][i].n))

\* the severity the specification derives from a lower-cased label
ClaimedLabelSeverity(x) ==
    IF Contains("critical", x) THEN 9
    ELSE IF Contains("high", x) THEN 7
    ELSE IF Contains("medium", x) THEN 5
    ELSE IF Contains("low", x) THEN 2
    ELSE 5

LabelCase == MapReturned /\ HasCol(df, "Severity Level") /\ ~HasCol(df, "attack_severity")

\* C4: Severity from categorical label.  With a 'Severity Level' column and no
\* attack_severity column, each row's severity is 9, 7, 5, 2 as its lower-cased
\* label contains 'critical', 'high', 'medium', 'low' (first match in that
\* order), else 5: 'Critical' gives 9, 'HIGH' 7, a label with 'low' and 'high' 7.
C4_SeverityFromLabel ==
    LabelCase =>
        \A i \in 1..NRows(df) :
            LET lab == df.col["Severity Level"][i]
                sev == out.col["attack_severity"][i]
            IN  /\ sev = Num(ClaimedLabelSeverity(
                             Lower(CellStr(lab, IsFloatColumn(df.col["Severity Level"])))))
                /\ (lab = Str("Critical") => sev = Num(9))
                /\ (lab = Str("HIGH") => sev = Num(7))
                /\ (lab = Str("Medium") => sev = Num(5))
                /\ (lab = Str("low") => sev = Num(2))
                /\ (lab = Str("Low to High") => sev = Num(7))
                /\ (lab \in {Str("n/a"), Null} => sev = Num(5))

C4_Witness ==
    /\ LabelCase
    /\ NRows(df) > 0
    /\ df.col["Severity Level"][1] = Str("Low to High")
    /\ out.col["attack_severity"][1] = Num(7)

\* C5: Schema detection, first match wins.  'Country' with the financial-loss
\* column is GLOBAL_THREATS and fully mapped, even beside 'Timestamp' and
\* 'Attack Type'; otherwise 'Timestamp' with 'Attack Type' is CANONICAL_LIKE and
\* comes back with only its Timestamp column coerced; every other table is
\* UNKNOWN, is no loader error, and gets exactly map_global_schema's result.
C5_SchemaDetection ==
    pc = "loaded" =>
        LET global == HasCol(df, "Country") /\ HasCol(df, LossColumn)
            canon == HasCol(df, "Timestamp") /\ HasCol(df, "Attack Type")
            mapped == map_global_schema(df, rng0, Now(clock))
            sameAsMapper == out = mapped.out /\ err = mapped.e /\ rng = mapped.r
        IN  /\ global => variant = "GLOBAL_THREATS" /\ sameAsMapper
            /\ (~global /\ canon) =>
                  /\ variant = "CANONICAL_LIKE"
                  /\ err = "none"
                  /\ out.idx = df.idx
                  /\ Columns(out) = Columns(df)
                  /\ \A c \in Columns(df) \ {"Timestamp"} : out.col[c] = df.col[c]
                  /\ out.col["Timestamp"] = FillNa(ToDatetime(df.col["Timestamp"]), Now(clock))
            /\ (~global /\ ~canon) => variant = "UNKNOWN" /\ sameAsMapper

C5_Witness ==
    /\ pc = "loaded"
    /\ err = "none"
    /\ variant = "GLOBAL_THREATS"
    /\ HasCol(df, "Timestamp") /\ HasCol(df, "Attack Type")
    /\ NRows(df) > 0
    /\ StandardFields = Columns(out)

\* a table that already holds the 15 canonical fields with valid values
AlreadyCanonical(t) ==
    /\ StandardFields \subseteq Columns(t)
    /\ \A f \in StandardFields : \A i \in 1..NRows(t) : WellTyped(f, t.col[f][i])
    /\ \A i \in 1..NRows(t) : t.col["attack_severity"][i].n \in 1..10

\* C6: Idempotent re-normalization.  map_global_schema of a table that already
\* has the 15 canonical fields with valid values equals it in every field, and
\* normalize(normalize(t)) = normalize(t).
C6_Idempotent ==
    /\ (MapReturned /\ AlreadyCanonical(df)) =>
            \A f \in StandardFields : out.col[f] = df.col[f]
    /\ (pc = "renormalized" /\ err2 = "none") => out2 = out

\* C7: Fallback chain, step 1.  When the input has a column named exactly like
\* a canonical field, the output field is a copy of it, whatever other columns
\* are present.
C7_ExactNameCopied ==
    MapReturned =>
        \A f \in StandardFields \cap Columns(df) : \A i \in 1..NRows(df) :
            WellTyped(f, df.col[f][i]) => out.col[f][i] = df.col[f][i]

\* C8: normalize is total.  map_global_schema returns a table, without
\* raising, for every input table.
C8_Total == pc = "mapped" => err = "none"

\* the columns whose cells the adapter converts to a number or an instant
ConvertedColumns ==
    {"attack_severity", "attack_duration_min", "response_time_min", LossColumn, "Timestamp"}

Unparsable(c) == IsStr(c) /\ ~IsNumeral(c.s)

\* C9: Unparsable values are recovered locally.  A cell that cannot be
\* converted never makes map_global_schema raise and is replaced by the
\* field's default (severity 5, duration 30, response 15, loss 0, timestamp
\* now), also when the input has no 'Severity Level' column.
C9_UnparsableRecovered ==
    (pc = "mapped" /\ Columns(df) \subseteq ConvertedColumns) =>
        /\ err = "none"
        /\ \A i \in 1..NRows(df) :
              /\ (HasCol(df, "attack_severity") /\ Unparsable(df.col["attack_severity"][i]))
                    => out.col["attack_severity"][i] = Num(5)
              /\ (HasCol(df, "attack_duration_min") /\ Unparsable(df.col["attack_duration_min"][i]))
                    => out.col["attack_duration_min"][i] = Num(30)
              /\ (HasCol(df, "response_time_min") /\ Unparsable(df.col["response_time_min"][i]))
                    => out.col["response_time_min"][i] = Num(15)
              /\ (HasCol(df, LossColumn) /\ Unparsable(df.col[LossColumn][i]))
                    => out.col["data_compromised_GB"][i].n = 0
              /\ (HasCol(df, "Timestamp") /\ ToDatetimeCell(df.col["Timestamp"][i]) = Null)
                    => out.col["timestamp"][i] = Now(0)

\* C10: Empty input.  Normalizing a table with a header and zero rows, whatever
\* its column names, raises nothing and returns a zero-row table with the 15
\* canonical fields.
C10_EmptyInput ==
    (pc \in {"mapped", "loaded"} /\ NRows(df) = 0) =>
        /\ err = "none"
        /\ NRows(out) = 0
        /\ StandardFields \subseteq Columns(out)

\* the categorical fields with a documented fallback constant
CategoricalFields ==
    {"attack_type", "target_system", "location", "industry", "outcome",
     "mitigation_method", "security_tools_used", "user_role"}

\* the input columns a field's fallback chain can copy, rename or derive from
FallbackSources(f) ==
    CASE f = "attack_type" -> {"attack_type", "Attack Type", "Attack Signature"}
      [] f = "target_system" -> {"target_system", "Device Information", "Target", "Target Industry"}
      [] f = "location" -> {"location", "Country"}
      [] f = "industry" -> {"industry", "Industry", "Target Industry"}
      [] f = "outcome" -> {"outcome", "Action Taken", "Incident Resolution Time (in Hours)"}
      [] f = "mitigation_method" ->
            {"mitigation_method", "Defense Mechanism Used", "Defense Mechanism", "Attack Signature"}
      [] f = "security_tools_used" -> {"security_tools_used", "Defense Mechanism Used"}
      [] f = "user_role" -> {"user_role"}

FallbackConstant(f) ==
    CASE f = "attack_type" -> "Unknown"
      [] f = "target_system" -> "Unknown System"
      [] f = "location" -> "Unknown"
      [] f = "industry" -> "Various"
      [] f = "outcome" -> "Unknown"
      [] f = "mitigation_method" -> "Standard Protocol"
      [] f = "security_tools_used" -> "Basic Security Suite"
      [] f = "user_role" -> "User"

\* C11: Documented fallback constants.  When the input has no column a
\* categorical field can be copied, renamed or derived from, every output row
\* holds the field's documented constant ('Unknown', 'Unknown System',
\* 'Various', 'Standard Protocol', 'Basic Security Suite', 'User').
C11_FallbackConstants ==
    MapReturned =>
        \A f \in CategoricalFields :
            (FallbackSources(f) \cap Columns(df) = {}) =>
                \A i \in 1..NRows(df) : out.col[f][i] = Str(FallbackConstant(f))

HoursColumn == "Incident Resolution Time (in Hours)"

\* C12: Outcome from resolution hours.  With an 'Incident Resolution Time (in
\* Hours)' column and neither 'Action Taken' nor 'outcome', a row's outcome is
\* 'Resolved' when its hours are > 0 and 'Unknown' otherwise (unparsable hours
\* count as 0).
C12_OutcomeFromHours ==
    (MapReturned /\ HasCol(df, HoursColumn) /\ ~HasCol(df, "Action Taken")
        /\ ~HasCol(df, "outcome")) =>
        \A i \in 1..NRows(df) :
            out.col["outcome"][i] =
                IF NumGt(ToNumericCell(df.col[HoursColumn][i]), 0)
                THEN Str("Resolved") ELSE Str("Unknown")

UsersColumn == "Number of Affected Users"

\* C13: Severity source precedence.  Without attack_severity the severity
\* comes from the first of label, financial loss, affected users, default 5:
\* with a label and a loss column the label alone decides, and with none of
\* the sources every row has severity 5.
C13_SeverityPrecedence ==
    (MapReturned /\ ~HasCol(df, "attack_severity")) =>
        \A i \in 1..NRows(df) :
            /\ HasCol(df, "Severity Level") =>
                  out.col["attack_severity"][i] =
                      Num(ClaimedLabelSeverity(
                            Lower(CellStr(df.col["Severity Level"][i],
                                          IsFloatColumn(df.col["Severity Level"])))))
            /\ ({"Severity Level", LossColumn, UsersColumn} \cap Columns(df) = {}) =>
                  out.col["attack_severity"][i] = Num(5)

\* the severity the specification derives from an affected-user count
ClaimedUsersSeverity(x) ==
    IF NumGt(x, 100000) THEN 7 ELSE IF NumGt(x, 10000) THEN 5 ELSE 3

\* C14: Severity from affected-user count.  With a 'Number of Affected Users'
\* column and no attack_severity, 'Severity Level' or financial-loss column,
\* severity is 7 when users > 100000, 5 when users > 10000, 3 otherwise.
C14_SeverityFromUsers ==
    (MapReturned /\ HasCol(df, UsersColumn)
        /\ {"attack_severity", "Severity Level", LossColumn} \cap Columns(df) = {}) =>
        \A i \in 1..NRows(df) :
            IsNum(df.col[UsersColumn][i]) =>
                out.col["attack_severity"][i] = Num(ClaimedUsersSeverity(df.col[UsersColumn][i]))

\* a and b are numbers of the same value
SameNumber(a, b) == IsNum(a) /\ IsNum(b) /\ a.n * b.d = b.n * a.d

\* the number in a cell, 0 when the cell holds none
OrZero(c) == IF IsNum(ToNumericCell(c)) THEN ToNumericCell(c) ELSE Num(0)

\* the data volume the specification derives for row i of table t
ClaimedData(t, i) ==
    IF HasCol(t, "data_compromised_GB") THEN OrZero(t.col["data_compromised_GB"][i])
    ELSE IF HasCol(t, LossColumn)
    THEN LET x == OrZero(t.col[LossColumn][i]) IN [x EXCEPT !.d = @ * 2]
    ELSE IF HasCol(t, UsersColumn)
    THEN LET x == OrZero(t.col[UsersColumn][i]) IN [x EXCEPT !.d = @ * 1000]
    ELSE Num(0)

\* C15: Data-compromised derivation.  data_compromised_GB is the input's own
\* column when present (unparsable cells become 0); otherwise loss x 0.5 when a
\* financial-loss column is present; otherwise users x 0.001; otherwise 0.  The
\* loss rule goes before the affected-user rule.
C15_DataCompromised ==
    MapReturned =>
        \A i \in 1..NRows(df) :
            SameNumber(out.col["data_compromised_GB"][i], ClaimedData(df, i))

C15_Witness ==
    /\ MapReturned
    /\ NRows(df) > 0
    /\ ~HasCol(df, "data_compromised_GB")
    /\ HasCol(df, LossColumn) /\ HasCol(df, UsersColumn)
    /\ df.col[LossColumn][1] = Num(120)
    /\ df.col[UsersColumn][1] = Num(50000)
    /\ SameNumber(out.col["data_compromised_GB"][1], Num(60))

NonNegative(c) == IsNum(c) /\ c.n * c.d >= 0

\* C16: Non-negative numeric fields.  In every row of every returned table
\* data_compromised_GB, attack_duration_min and response_time_min are >= 0,
\* whatever numbers the input columns hold.
C16_NonNegative ==
    MapReturned =>
        \A f \in {"data_compromised_GB", "attack_duration_min", "response_time_min"} :
            \A i \in 1..NRows(out) : NonNegative(out.col[f][i])

\* C17: Acyclic synthesis order.  In one pass no field is computed from a
\* field that was itself synthesized in that pass: the attack signature, the
\* numeric severity and mitigation_method are never derived from a placeholder
\* attack type, severity label or attack signature; so a mitigation_method
\* never embeds the placeholder attack type of its row.
C17_AcyclicSynthesis ==
    MapReturned =>
        /\ \A p \in DerivedFrom(df) : p[2] \notin Placeholders(df)
        /\ ({"Attack Type", "attack_type"} \cap Columns(df) = {}) =>
              \A i \in 1..NRows(df) :
                  IsStr(out.col["mitigation_method"][i]) =>
                      ~Contains(out.col["attack_type"][i].s \o "_",
                                out.col["mitigation_method"][i].s)

\* C18: Determinism.  Two runs of map_global_schema on the same table from the
\* same random state return tables equal in every field and row, the
\* timestamp included when the input has no usable timestamp.
C18_Deterministic == pc = "rerun" => (out2 = out /\ err2 = err)

\* C19: Missing-input error.  When the root directory holds no CSV file,
\* find_dataset returns None and load_best_dataset reports an error and halts
\* without returning a table; when it holds at least one CSV, find_dataset
\* returns an existing path and no missing-input error is raised.
C19_MissingInput ==
    pc \in {"loaded", "stopped"} =>
        IF \E f \in files : IsCsv(f)
        THEN /\ pc = "loaded"
             /\ ds \in files
             /\ err # "st.stop"
        ELSE /\ pc = "stopped"
             /\ ds = None
             /\ err = "st.stop"
             /\ out = EmptyFrame

C19_Witness ==
    /\ pc = "stopped"
    /\ files = {"notes.txt"}
    /\ err = "st.stop"
    /\ out = EmptyFrame

\* the attack types of the vocabulary without an entry in the lookup table
UnlistedTypes ==
    {"Man-in-the-Middle", "Cross-Site Scripting", "Password Attack", "DNS Spoofing",
     "Session Hijacking"}

\* C20: Generator severity-range containment.  Every generated record's
\* attack_severity is an integer inside the range the lookup table gives for
\* its attack_type (Ransomware 7..10, Brute Force 3..6), inside 3..8 for the
\* attack types without an entry, and so inside 1..10.
C20_SeverityRange ==
    \A i \in 1..Len(records) :
        LET rec == records[i]
            range == severity_weights(rec.attack_type)
        IN  /\ rec.attack_severity \in range[1]..range[2]
            /\ (rec.attack_type = "Ransomware" => rec.attack_severity \in 7..10)
            /\ (rec.attack_type = "Brute Force" => rec.attack_severity \in 3..6)
            /\ (rec.attack_type \in UnlistedTypes => rec.attack_severity \in 3..8)
            /\ rec.attack_severity \in 1..10

C20_Witness ==
    /\ Len(records) >= 2
    /\ records[1].attack_type = "Ransomware" /\ records[1].attack_severity = 10
    /\ records[2].attack_type \in UnlistedTypes

\* the stream state the i-th record of the run was generated from
StateOfRecord(i) == PyAt(pyseed, (i - 1) * DrawsPerRecord)

(* C21: the table generate_dataset(n) returns is non-decreasing in timestamp,
   holds exactly n rows, and is a permutation of the n generated records. *)
C21_SortOrder ==
    genpc = "returned" =>
        /\ \A i \in 1..(Len(dataset) - 1) : dataset[i].timestamp <= dataset[i + 1].timestamp
        /\ Len(dataset) = num_records
        /\ Len(records) = num_records
        /\ \E p \in Orders(num_records) : dataset = [i \in 1..num_records |-> records[p[i]]]

\* a returned table whose rows the sort has put in another order
C21_Witness ==
    /\ genpc = "returned"
    /\ Len(dataset) = num_records
    /\ num_records >= 2
    /\ dataset # records

(* C22: timestamps are drawn from a source that is not the seeded stream:
   (a) generate_timestamp neither consumes from the seeded stream (the stream
   has advanced by the other draws only) nor depends on it (the timestamp is
   the same whatever the state of the stream), and (b) a second run from the
   same seed may produce another timestamp sequence. *)
C22_IndependentStreams ==
    Len(records) > 0 =>
        /\ rnd = PyAt(pyseed, (DrawsPerRecord - 1) * Len(records))
        /\ \A i \in 1..Len(records) : \A r \in 0..MaxPySeed :
               generate_timestamp(r) = records[i].timestamp
        /\ \E i \in 1..Len(records) :
               RecordOfRun(pyseed, i).timestamp # records[i].timestamp

(* C23: two runs from the same seed that generate the same number of records
   produce, record by record in generation order, identical attack_type,
   location and attack_severity. *)
C23_CategoricalReproducibility ==
    \A i \in 1..Len(records) :
        LET again == RecordOfRun(pyseed, i)
        IN  /\ again.attack_type = records[i].attack_type
            /\ again.location = records[i].location
            /\ again.attack_severity = records[i].attack_severity

\* a run of two records that differ in every categorical field
C23_Witness ==
    /\ Len(records) >= 2
    /\ records[1].attack_type # records[2].attack_type
    /\ records[1].location # records[2].location
    /\ records[1].attack_severity # records[2].attack_severity

(* C24: a record's outcome is 'Mitigated' when the drawn action is Blocked,
   Quarantined or Contained, 'Detected' when it is Logged or Monitored, and
   'Resolved' for every other action of the vocabulary; never another value. *)
C24_OutcomeRule ==
    \A i \in 1..Len(records) :
        LET action == action_of(StateOfRecord(i))
            outcome == records[i].outcome
        IN  /\ action \in {ACTION_TAKEN[k] : k \in 1..Len(ACTION_TAKEN)}
            /\ action \in {"Blocked", "Quarantined", "Contained"} => outcome = "Mitigated"
            /\ action \in {"Logged", "Monitored"} => outcome = "Detected"
            /\ action \notin {"Blocked", "Quarantined", "Contained", "Logged", "Monitored"}
                   => outcome = "Resolved"
            /\ outcome \in {"Mitigated", "Detected", "Resolved"}

\* a run with a Contained action next to a Monitored one
C24_Witness ==
    /\ Len(records) >= 2
    /\ action_of(StateOfRecord(1)) = "Contained"
    /\ records[1].outcome = "Mitigated"
    /\ action_of(StateOfRecord(2)) = "Monitored"
    /\ records[2].outcome = "Detected"

(* C25: every record's timestamp t satisfies START_DATE <= t <= END_DATE, and
   its year column is the calendar year of t. *)
C25_TimestampRange ==
    \A i \in 1..Len(records) :
        LET t == records[i].timestamp
            day == t \div SecondsPerDay
            y == records[i].year
        IN  /\ START_DATE <= t
            /\ t <= END_DATE
            /\ DaysFromStart(y, 1, 1) <= day
            /\ day <= DaysFromStart(y, 12, 31)

\* a record at the last instant of the range, and one of a leap year's last day
C25_Witness ==
    /\ Len(records) >= 1
    /\ \E i \in 1..Len(records) :
           /\ records[i].timestamp = END_DATE
           /\ records[i].year = 2024

\* the tests of lines 177-186 that an attack type passes, in order
BandsOf(attack_type) ==
    {k \in 1..5 :
        \/ k = 1 /\ attack_type \in HighLossTypes
        \/ k = 2 /\ attack_type \in MediumLossTypes
        \/ k = 3 /\ attack_type \in MinimalLossTypes
        \/ k = 4 /\ attack_type \in VariableLossTypes
        \/ k = 5 /\ attack_type \notin
               (HighLossTypes \cup MediumLossTypes \cup MinimalLossTypes \cup VariableLossTypes)}

(* C26: a record whose attack_type is DDoS, Brute Force or Cryptojacking has
   0.1 <= data_compromised_GB <= 5 whatever its severity; the five bands are
   pairwise disjoint, so each attack type falls under exactly one formula. *)
C26_DataCompromisedBands ==
    /\ \A i \in 1..Len(records) :
           records[i].attack_type \in {"DDoS", "Brute Force", "Cryptojacking"} =>
               /\ 10 <= records[i].data_compromised_GB
               /\ records[i].data_compromised_GB <= 500
    /\ Len(records) > 0 =>
           \A k \in 1..Len(ATTACK_TYPES) : Cardinality(BandsOf(ATTACK_TYPES[k])) = 1

\* a DDoS record of high severity next to a Cryptojacking record
C26_Witness ==
    /\ Len(records) >= 2
    /\ \E i, j \in 1..Len(records) :
           /\ records[i].attack_type = "DDoS"
           /\ records[i].attack_severity >= 7
           /\ records[j].attack_type = "Cryptojacking"

(* C27: the table map_global_schema returns contains every column of
   CANONICAL_COLUMNS together with the input's original columns. *)
C27_CanonicalAndOriginalColumns ==
    MapReturned /\ pc = "mapped" =>
        /\ \A k \in 1..Len(CANONICAL_COLUMNS) : HasCol(out, CANONICAL_COLUMNS[k])
        /\ Columns(df) \subseteq Columns(out)

\* the tables that agree with t on the row at position i, in its label and in
\* every cell, and differ in one cell of another row
SameRow(t, i) ==
    UNION {{[t EXCEPT !.col[c][j] = v] : j \in (1..NRows(t)) \ {i}, v \in ColDomain(c)} :
              c \in Columns(t)}

(* C29: map_global_schema leaves its input table unchanged and returns a table
   with one output row per input row, carrying the same row index in the same
   order, so that output row i is derived from input row i only: a call on a
   table that agrees on row i returns the same row i. *)
C29_RowFrame ==
    [][(pc = "idle" /\ pc' = "mapped") =>
          /\ df' = df
          /\ err' = "none" =>
                /\ out'.idx = df.idx
                /\ \A c \in Columns(out') : Len(out'.col[c]) = NRows(df)
                /\ \A i \in 1..NRows(df) : \A t2 \in SameRow(df, i) :
                       \E res2 \in {map_global_schema(t2, rng, Now(clock))} :
                           res2.e = "none" =>
                               \A c \in Columns(out') : res2.out.col[c][i] = out'.col[c][i]]_vars

\* the columns load_global_data adds to the table it returns
AddedColumns ==
    {"Date", "Severity_Category", "Severity_Score", "Resolution_Category", "Impact_Score"}

\* the requested file is missing, and the adapter has found and mapped
\* another CSV of the Global-Threats shape
AdapterMapped ==
    /\ pc \in {"global_loaded", "global_stopped"}
    /\ DefaultFilePath \notin files
    /\ ds \in files
    /\ IsCsv(ds)
    /\ variant = "GLOBAL_THREATS"
    /\ err2 = "none"
    /\ out2 # EmptyFrame

(* C28: when the requested file does not exist but the data adapter finds and
   maps another CSV of the Global-Threats shape, load_global_data returns a
   processed table with Date, Severity_Category, Severity_Score,
   Resolution_Category and Impact_Score added, and does not end in the error
   state. *)
C28_FallbackLoads ==
    AdapterMapped =>
        /\ pc = "global_loaded"
        /\ err = "none"
        /\ AddedColumns \subseteq Columns(out)

\* row i of t passes every filter of f that has a non-empty value
Passes(t, i, f) ==
    /\ Truthy(f, "year_range") =>
           LET y == t.col["Year"][i]
           IN  IsNum(y) /\ f["year_range"][1] * y.d <= y.n /\ y.n <= f["year_range"][2] * y.d
    /\ \A k \in 1..Len(IsinFilters) :
           Truthy(f, IsinFilters[k][1]) =>
               \E v \in Elems(f[IsinFilters[k][1]]) : t.col[IsinFilters[k][2]][i] = Str(v)

(* C30: filter_data returns exactly the rows of the input that satisfy every
   filter given with a non-empty value (year within the inclusive year_range,
   membership in each supplied list); an absent or empty filter imposes no
   constraint, the order of the surviving rows is preserved, and the input
   table is not modified. *)
C30_FilterData ==
    [][(pc = "global_loaded" /\ pc' = "filtered") =>
          /\ out' = out
          /\ ferr' = "none" =>
                LET keep == {i \in 1..NRows(out) : Passes(out, i, filters')}
                IN  /\ NRows(filtered') = Cardinality(keep)
                    /\ Columns(filtered') = Columns(out)
                    /\ \E pos \in [1..NRows(filtered') -> keep] :
                          /\ \A j \in 1..(NRows(filtered') - 1) : pos[j] < pos[j + 1]
                          /\ \A j \in 1..NRows(filtered') :
                                /\ filtered'.idx[j] = out.idx[pos[j]]
                                /\ \A c \in Columns(out) :
                                      filtered'.col[c][j] = out.col[c][pos[j]]]_vars

\* a year filter whose upper end is the year of the one surviving row, the
\* second of two
C30_Witness ==
    /\ pc = "filtered"
    /\ ferr = "none"
    /\ NRows(out) = 2
    /\ Truthy(filters, "year_range")
    /\ filtered.idx = <<1>>
    /\ filtered.col["Year"] = <<Num(filters["year_range"][2])>>
    /\ out.col["Year"][1] = Num(2019)

====
